---- MODULE Spec2Model ----
(***************************************************************************)
(* Model of the jam-seismic front end: the earthquake simulation component *)
(* (React state, passive effects, requestAnimationFrame loop), the formula *)
(* library and the grid utilities.                                         *)
(*                                                                         *)
(* JavaScript numbers are modelled by their IEEE-754 class (zero, finite,  *)
(* infinite, NaN), their sign and their decimal order of magnitude, so     *)
(* that division by zero, overflow and underflow behave as in the build;   *)
(* mantissas are kept only as an identity tag.                             *)
(*                                                                         *)
(* React is the runtime named by src/README.md:155 (React 19): updates     *)
(* dispatched by a discrete DOM event are rendered and committed, with     *)
(* their passive effects, before the event returns; updates dispatched     *)
(* from an animation frame or from a passive effect are queued and         *)
(* rendered by a later scheduler task, or by the next discrete event,      *)
(* whichever comes first; pending passive effects are flushed before any   *)
(* render.                                                                 *)
(***************************************************************************)
EXTENDS Integers, Sequences, FiniteSets, TLC

VARIABLES
    isPlaying,      \* useState(false), line 7: committed value
    time,           \* useState(0), line 8: committed value, in milliseconds
    parameters,     \* useState({...}), lines 11-19: committed value
    displacement,   \* useState(0), line 21: committed value
    animationRef,   \* useRef(null), line 6: TRUE once a frame id is stored
    frames,         \* the browser's list of pending animation frame callbacks
    updates,        \* React's queue of dispatched, not yet rendered updates
    effects,        \* passive effects scheduled by the last commit, not yet run
    cleanup,        \* the animation effect's last run returned a cleanup
    lastOp,         \* history: the operation of the last step and its input
    halted,         \* history: "stop"/"reset" since the last start(), else "no"
    ticks,          \* history: frames fired since the last start()
    edits,          \* history: parameter entries made (bounds the model)
    call,           \* pure-function specifications: the call being evaluated
    result          \* pure-function specifications: what it returned

simVars == <<isPlaying, time, parameters, displacement, animationRef, frames,
             updates, effects, cleanup, lastOp, halted, ticks, edits>>
vars == <<isPlaying, time, parameters, displacement, animationRef, frames,
          updates, effects, cleanup, lastOp, halted, ticks, edits, call, result>>

(***************************************************************************)
(* Bounds of the model.                                                    *)
(***************************************************************************)
MaxTime == 3        \* frames that may advance the clock after one start()
MaxQueue == 2       \* animation frames that may fire between two renders
MaxEdits == 1       \* parameter entries typed in one run

\* F applied to the value of e, e being evaluated once
Let(e, F(_)) == CHOOSE r \in { F(x) : x \in {e} } : TRUE
Let2(e1, e2, F(_, _)) == CHOOSE r \in { F(x, y) : x \in {e1}, y \in {e2} } : TRUE

(***************************************************************************)
(* JavaScript numbers.                                                     *)
(***************************************************************************)
MaxExp == 308       \* largest decimal exponent of a finite double
MinExp == -324      \* below it a quotient or product underflows to 0

Zero == [k |-> "zero", s |-> 0, o |-> 0, id |-> <<>>]
NaN == [k |-> "nan", s |-> 0, o |-> 0, id |-> <<>>]
Inf(s) == [k |-> "inf", s |-> s, o |-> 0, id |-> <<>>]
Fin(s, o) == [k |-> "fin", s |-> s, o |-> o, id |-> <<>>]

\* a finite result of the given sign and order, after overflow and underflow
Round(s, o) ==
    IF o > MaxExp THEN Inf(s) ELSE IF o < MinExp THEN Zero ELSE Fin(s, o)

\* the literals of the source; a number written exactly keeps its digits
One == [Fin(1, 0) EXCEPT !.id = <<1, 0>>]
Two == [Fin(1, 0) EXCEPT !.id = <<2, 0>>]
Thousand == [Fin(1, 3) EXCEPT !.id = <<1, 3>>]
TwoPi == Fin(1, 0)          \* 2 * Math.PI = 6.28...

IsNaN(a) == a.k = "nan"
IsFinite(a) == a.k \in {"zero", "fin"}
IsPositive(a) == a.k \in {"fin", "inf"} /\ a.s = 1     \* a > 0

\* a * b
NMul(a0, b0) ==
    Let2(a0, b0, LAMBDA a, b :
        IF a.k = "nan" \/ b.k = "nan" THEN NaN
        ELSE IF a.k = "zero" \/ b.k = "zero"
             THEN (IF a.k = "inf" \/ b.k = "inf" THEN NaN ELSE Zero)
        ELSE IF a.k = "inf" \/ b.k = "inf" THEN Inf(a.s * b.s)
        ELSE IF a = One THEN b
        ELSE IF b = One THEN a
        ELSE Round(a.s * b.s, a.o + b.o))

\* a / b: a zero divisor gives an infinity or NaN, never an exception
NDiv(a0, b0) ==
    Let2(a0, b0, LAMBDA a, b :
        IF a.k = "nan" \/ b.k = "nan" THEN NaN
        ELSE IF b.k = "zero"
             THEN (IF a.k = "zero" THEN NaN ELSE Inf(a.s))
        ELSE IF b.k = "inf"
             THEN (IF a.k = "inf" THEN NaN ELSE Zero)
        ELSE IF a.k = "zero" THEN Zero
        ELSE IF a.k = "inf" THEN Inf(a.s * b.s)
        ELSE IF a = b THEN One
        ELSE IF b = One THEN a
        ELSE Round(a.s * b.s, a.o - b.o))

\* Math.pow(a, 2) and a * a
NSquare(a) == NMul(a, a)

\* Math.sqrt(a)
NSqrt(a0) ==
    Let(a0, LAMBDA a :
        IF a.k = "nan" THEN NaN
        ELSE IF a.k = "zero" THEN Zero
        ELSE IF a.s < 0 THEN NaN
        ELSE IF a.k = "inf" THEN Inf(1)
        ELSE Fin(1, a.o \div 2))

\* a + b for two squares (neither is negative)
NAdd(a0, b0) ==
    Let2(a0, b0, LAMBDA a, b :
        IF a.k = "nan" \/ b.k = "nan" THEN NaN
        ELSE IF a.k = "inf" \/ b.k = "inf" THEN Inf(1)
        ELSE IF a.k = "zero" THEN b
        ELSE IF b.k = "zero" THEN a
        ELSE Fin(1, IF a.o > b.o THEN a.o ELSE b.o))

\* 1 - a for a square a: 0 when a is exactly 1; for any other a of order 0 the
\* difference is taken to be of order 0
OneMinus(a0) ==
    Let(a0, LAMBDA a :
        IF a.k = "nan" THEN NaN
        ELSE IF a.k = "zero" THEN One
        ELSE IF a = One THEN Zero
        ELSE IF a.k = "inf" THEN Inf(-1)
        ELSE IF a.o < 0 THEN One
        ELSE Fin(-1, a.o))

\* Math.atan2(y, x): an angle in [-pi, pi] for every pair that holds no NaN
NAtan2(y, x) == IF y.k = "nan" \/ x.k = "nan" THEN NaN ELSE Fin(1, 0)

\* a - b where b is an angle: only a's class matters
NMinusAngle(a0, b0) ==
    Let2(a0, b0, LAMBDA a, b :
        IF a.k = "nan" \/ b.k = "nan" THEN NaN
        ELSE IF a.k = "zero" THEN Fin(-1, 0)
        ELSE a)

\* Math.sin(a): NaN for an infinite or NaN argument, else within [-1, 1]
\* (its sign is not tracked)
NSin(a) == IF a.k \in {"nan", "inf"} THEN NaN ELSE Fin(1, 0)

(***************************************************************************)
(* parseFloat, on a string given as its sequence of characters: optional   *)
(* sign, digits, optional fraction, optional exponent; anything after the  *)
(* longest numeric prefix is ignored, and no digit at all gives NaN.       *)
(***************************************************************************)
DigitOf == [c \in {"0", "1", "2", "3", "4", "5", "6", "7", "8", "9"} |->
              CASE c = "0" -> 0 [] c = "1" -> 1 [] c = "2" -> 2 [] c = "3" -> 3
                [] c = "4" -> 4 [] c = "5" -> 5 [] c = "6" -> 6 [] c = "7" -> 7
                [] c = "8" -> 8 [] c = "9" -> 9]

IsDigitAt(str, i) == i <= Len(str) /\ str[i] \in DOMAIN DigitOf

\* the number of consecutive digits of str from position i on
RECURSIVE DigitRun(_, _)
DigitRun(str, i) == IF IsDigitAt(str, i) THEN 1 + DigitRun(str, i + 1) ELSE 0

\* the value of the n digits of str from position i on, after the digits acc
RECURSIVE DigitsValue(_, _, _, _)
DigitsValue(str, i, n, acc) ==
    IF n = 0 THEN acc
    ELSE DigitsValue(str, i + 1, n - 1, 10 * acc + DigitOf[str[i]])

\* the number of decimal digits of m > 0
RECURSIVE DigitCount(_)
DigitCount(m) == IF m < 10 THEN 1 ELSE 1 + DigitCount(m \div 10)

\* m * 10^e with the trailing zeros of m moved into the exponent
RECURSIVE Normal(_, _)
Normal(m, e) == IF m # 0 /\ m % 10 = 0 THEN Normal(m \div 10, e + 1) ELSE <<m, e>>

\* the double nearest to sign * m * 10^e
Number(sign, m, e) ==
    IF m = 0 THEN Zero
    ELSE LET r == Round(sign, DigitCount(m) - 1 + e)
         IN  IF r.k = "fin" THEN [r EXCEPT !.id = Normal(m, e)] ELSE r

parseFloat(str) ==
    LET signed == Len(str) >= 1 /\ str[1] \in {"-", "+"}
        sign == IF signed /\ str[1] = "-" THEN -1 ELSE 1
        p0 == IF signed THEN 2 ELSE 1
        nInt == DigitRun(str, p0)
        p1 == p0 + nInt
        dot == p1 <= Len(str) /\ str[p1] = "."
        nFrac == IF dot THEN DigitRun(str, p1 + 1) ELSE 0
        p2 == IF dot THEN p1 + 1 + nFrac ELSE p1
        hasE == p2 <= Len(str) /\ str[p2] \in {"e", "E"}
        eSigned == hasE /\ p2 + 1 <= Len(str) /\ str[p2 + 1] \in {"-", "+"}
        p3 == IF eSigned THEN p2 + 2 ELSE p2 + 1
        nExp == IF hasE THEN DigitRun(str, p3) ELSE 0
        eSign == IF eSigned /\ str[p2 + 1] = "-" THEN -1 ELSE 1
        exp == eSign * DigitsValue(str, p3, nExp, 0)
        mant == DigitsValue(str, p1 + 1, nFrac, DigitsValue(str, p0, nInt, 0))
    IN  IF nInt + nFrac = 0 THEN NaN ELSE Number(sign, mant, exp - nFrac)

(***************************************************************************)
(* The structural parameters and the values derived from them.             *)
(***************************************************************************)
ParamNames == {"mass", "stiffness", "damping", "groundAccel", "frequency"}

initialParameters ==
    [mass |-> parseFloat(<<"1", "0", "0", "0">>),
     stiffness |-> parseFloat(<<"5", "0", "0", "0", "0">>),
     damping |-> parseFloat(<<"0", ".", "0", "5">>),
     groundAccel |-> parseFloat(<<"5", ".", "0">>),
     frequency |-> parseFloat(<<"1", ".", "5">>),
     naturalFreq |-> Zero,
     period |-> Zero]

\* Math.sqrt(stiffness / mass) / (2 * Math.PI); the result is tagged with the
\* inputs it was computed from
naturalFrequency(stiffness, mass) ==
    [NDiv(NSqrt(NDiv(stiffness, mass)), TwoPi) EXCEPT !.id = stiffness.id \o mass.id]

\* 1 / naturalFreq
periodOf(naturalFreq) == [NDiv(One, naturalFreq) EXCEPT !.id = naturalFreq.id \o <<0>>]

\* what the updater passed to setTime hands to setDisplacement for the time
\* newTime (milliseconds), given the parameters p its closure holds
secondsOf(ms) == IF ms = 0 THEN Zero ELSE Fin(1, DigitCount(ms) - 4)

structuralDisplacement(p, newTime) ==
    LET omega == NMul(TwoPi, p.naturalFreq)
        excitationRatio == NDiv(p.frequency, p.naturalFreq)
        dampingTerm == NMul(Two, NMul(p.damping, excitationRatio))
        detuning == OneMinus(NSquare(excitationRatio))
        denominator == NSqrt(NAdd(NSquare(detuning), NSquare(dampingTerm)))
        amplificationFactor == NDiv(One, denominator)
        phase == NAtan2(dampingTerm, detuning)
        angle == NMinusAngle(NMul(NMul(TwoPi, p.frequency), secondsOf(newTime)), phase)
    IN  NMul(NMul(amplificationFactor, NDiv(p.groundAccel, NSquare(omega))),
             NSin(angle))

\* a value of the displacement state: the number, and for which time and from
\* which parameters it was computed
noDisplacement == [val |-> Zero, t |-> 0, from |-> initialParameters]

animateDisplacement(p, newTime) ==
    [val |-> NMul(structuralDisplacement(p, newTime), Thousand),
     t |-> newTime, from |-> p]

TimeStep == 20      \* prevTime + 0.02, in milliseconds

(***************************************************************************)
(* The component between two steps: its committed state, the updates React *)
(* holds, the frames the browser holds and the effects still to run.       *)
(***************************************************************************)
World ==
    [isPlaying |-> isPlaying, time |-> time, parameters |-> parameters,
     displacement |-> displacement, animationRef |-> animationRef,
     frames |-> frames, updates |-> updates, effects |-> effects,
     cleanup |-> cleanup]

noEffects == [derived |-> FALSE, animation |-> FALSE]

\* a state setter called: the update joins React's queue
Dispatch(w, hook, op, arg) ==
    [w EXCEPT !.updates = Append(@, [hook |-> hook, op |-> op, arg |-> arg])]

\* animationRef.current = requestAnimationFrame(animate), animate holding the
\* parameters p of the render that created it; the ref now names this frame only
requestAnimationFrame(w, p) ==
    [w EXCEPT !.frames = Append([i \in DOMAIN @ |-> [@[i] EXCEPT !.tracked = FALSE]],
                                [closure |-> p, tracked |-> TRUE]),
              !.animationRef = TRUE]

\* if (animationRef.current) cancelAnimationFrame(animationRef.current)
cancelAnimationFrame(w) ==
    IF w.animationRef
    THEN [w EXCEPT !.frames = SelectSeq(@, LAMBDA f : ~f.tracked)]
    ELSE w

\* the derived-parameters effect, on the parameters of the last render
derivedParametersEffect(w) ==
    LET naturalFreq == naturalFrequency(w.parameters.stiffness, w.parameters.mass)
    IN  Dispatch(w, "parameters", "derived", <<naturalFreq, periodOf(naturalFreq)>>)

\* the animation effect, on isPlaying and the parameters of the last render
animationEffect(w) ==
    IF ~w.isPlaying
    THEN [w EXCEPT !.cleanup = FALSE]
    ELSE [requestAnimationFrame(w, w.parameters) EXCEPT !.cleanup = TRUE]

\* React runs the passive effects of the last commit: first the cleanups of the
\* effects that run again, then the effects in the order of their declaration
FlushPassiveEffects(w) ==
    LET w1 == IF w.effects.animation /\ w.cleanup THEN cancelAnimationFrame(w) ELSE w
        w2 == IF w.effects.derived THEN derivedParametersEffect(w1) ELSE w1
        w3 == IF w.effects.animation THEN animationEffect(w2) ELSE w2
    IN  [w3 EXCEPT !.effects = noEffects]

\* the queue of one hook applied to its state: setIsPlaying, setDisplacement
RECURSIVE reduceSet(_, _)
reduceSet(state, us) ==
    IF us = <<>> THEN state ELSE reduceSet(Head(us).arg, Tail(us))

\* the parameters hook keeping only the last of its pending updates, as if
\* each setParameters replaced the object instead of updating the previous one
reduceParameters_lastOnly(prev, us) ==
    IF us = <<>> THEN prev
    ELSE LET u == us[Len(us)]
         IN  IF u.op = "field"
             THEN [prev EXCEPT ![u.arg[1]] = u.arg[2]]
             ELSE [prev EXCEPT !.naturalFreq = u.arg[1], !.period = u.arg[2]]

\* setParameters(prev => ({...prev, [param]: numValue})) and
\* setParameters(prev => ({...prev, naturalFreq, period}))
RECURSIVE reduceParameters(_, _)
reduceParameters(prev, us) ==
    IF us = <<>> THEN prev
    ELSE LET u == Head(us)
             next == IF u.op = "field"
                     THEN [prev EXCEPT ![u.arg[1]] = u.arg[2]]
                     ELSE [prev EXCEPT !.naturalFreq = u.arg[1], !.period = u.arg[2]]
         IN  reduceParameters(next, Tail(us))

\* the updater of animate, run with the parameters p of its closure: the new
\* time, and the displacement it hands to setDisplacement
\* the updater computing the displacement but returning prevTime
animateUpdater_stuck(prevTime, p) ==
    [time |-> prevTime, displacement |-> animateDisplacement(p, prevTime + TimeStep)]

animateUpdater(prevTime, p) ==
    LET newTime == prevTime + TimeStep
    IN  [time |-> newTime, displacement |-> animateDisplacement(p, newTime)]

\* setTime(0) and setTime(prevTime => ...): an updater that runs during the
\* render calls setDisplacement from inside it, and that update lands behind
\* the ones the displacement hook already holds
RECURSIVE reduceTime(_, _)
reduceTime(acc, us) ==
    IF us = <<>> THEN acc
    ELSE LET u == Head(us)
         IN  IF u.op = "set"
             THEN reduceTime([acc EXCEPT !.time = u.arg], Tail(us))
             ELSE LET r == animateUpdater(acc.time, u.arg)
                  IN  reduceTime([time |-> r.time,
                                  rendered |-> Append(acc.rendered,
                                      [hook |-> "displacement", op |-> "set",
                                       arg |-> r.displacement])],
                                 Tail(us))

\* one render and commit: every hook takes its pending updates in the order of
\* the hooks (isPlaying, time, parameters, displacement), and the effects whose
\* dependencies changed are scheduled
Render(w) ==
    LET of(h) == SelectSeq(w.updates, LAMBDA u : u.hook = h)
    IN  CHOOSE rendered \in
            { [w EXCEPT !.isPlaying = playing, !.time = clock.time,
                        !.parameters = params,
                        !.displacement =
                            reduceSet(w.displacement,
                                      of("displacement") \o clock.rendered),
                        !.updates = <<>>,
                        !.effects =
                            [derived |-> \/ params.mass # w.parameters.mass
                                         \/ params.stiffness # w.parameters.stiffness,
                             animation |-> \/ playing # w.isPlaying
                                           \/ of("parameters") # <<>>]] :
                playing \in {reduceSet(w.isPlaying, of("isPlaying"))},
                clock \in {reduceTime([time |-> w.time, rendered |-> <<>>], of("time"))},
                params \in {reduceParameters(w.parameters, of("parameters"))} } : TRUE

\* a click or an input event whose handler left the component as w: if it
\* dispatched anything React renders and commits before the event returns,
\* and runs the passive effects of that commit at once
DiscreteEvent(before, w) ==
    IF w.updates = before.updates THEN w
    ELSE FlushPassiveEffects(Render(FlushPassiveEffects(w)))

(***************************************************************************)
(* The handlers of the component.                                          *)
(***************************************************************************)
\* handleParameterChange without the numValue > 0 test
handleParameterChange_anyNumber(w, param, value) ==
    LET numValue == parseFloat(value)
    IN  IF ~IsNaN(numValue)
        THEN Dispatch(w, "parameters", "field", <<param, numValue>>)
        ELSE w

\* handleParameterChange testing numValue >= 0
handleParameterChange_nonNegative(w, param, value) ==
    LET numValue == parseFloat(value)
    IN  IF ~IsNaN(numValue) /\ (IsPositive(numValue) \/ numValue.k = "zero")
        THEN Dispatch(w, "parameters", "field", <<param, numValue>>)
        ELSE w

handleParameterChange(w, param, value) ==
    LET numValue == parseFloat(value)
    IN  IF ~IsNaN(numValue) /\ IsPositive(numValue)
        THEN Dispatch(w, "parameters", "field", <<param, numValue>>)
        ELSE w

\* startSimulation without its setTime(0)
startSimulation_resumes(w) == Dispatch(w, "isPlaying", "set", TRUE)

startSimulation(w) ==
    Dispatch(Dispatch(w, "isPlaying", "set", TRUE), "time", "set", 0)

stopSimulation(w) ==
    cancelAnimationFrame(Dispatch(w, "isPlaying", "set", FALSE))

\* resetSimulation putting the mass back to its initial value as well
resetSimulation_restores(w) ==
    cancelAnimationFrame(
        Dispatch(Dispatch(Dispatch(Dispatch(w, "isPlaying", "set", FALSE),
                                   "time", "set", 0),
                          "displacement", "set", noDisplacement),
                 "parameters", "field", <<"mass", initialParameters.mass>>))

resetSimulation(w) ==
    cancelAnimationFrame(
        Dispatch(Dispatch(Dispatch(w, "isPlaying", "set", FALSE),
                          "time", "set", 0),
                 "displacement", "set", noDisplacement))

\* the frame callback: setTime(updater), then the next frame is requested.
\* React runs the updater at once when nothing else is pending on the
\* component (eager), which dispatches its setDisplacement right away, and
\* otherwise during the next render.
\* the frame callback without its request for the next frame
animate_once(w, p, eager) ==
    LET r == animateUpdater(w.time, p)
    IN  IF eager
        THEN Dispatch(Dispatch(w, "displacement", "set", r.displacement),
                      "time", "set", r.time)
        ELSE Dispatch(w, "time", "animate", p)

animate(w, p, eager) ==
    LET r == animateUpdater(w.time, p)
        w1 == IF eager
              THEN Dispatch(Dispatch(w, "displacement", "set", r.displacement),
                            "time", "set", r.time)
              ELSE Dispatch(w, "time", "animate", p)
    IN  requestAnimationFrame(w1, p)

(***************************************************************************)
(* The state machine of the earthquake simulation.                         *)
(***************************************************************************)
\* what may be typed into a parameter field
RawInputs ==
    { <<"a", "b", "c">>, <<"0">>, <<"-", "5">>, <<"2">>,
      <<"1", "e", "-", "3", "2", "3">> }

Op(name, param, value, closure) ==
    [name |-> name, param |-> param, value |-> value, closure |-> closure]

Commit(w) ==
    \E c \in {w} :
        /\ isPlaying' = c.isPlaying
        /\ time' = c.time
        /\ parameters' = c.parameters
        /\ displacement' = c.displacement
        /\ animationRef' = c.animationRef
        /\ frames' = c.frames
        /\ updates' = c.updates
        /\ effects' = c.effects
        /\ cleanup' = c.cleanup

\* the state after the first render: the mount effects have not run yet
SimInit ==
    /\ isPlaying = FALSE
    /\ time = 0
    /\ parameters = initialParameters
    /\ displacement = noDisplacement
    /\ animationRef = FALSE
    /\ frames = <<>>
    /\ updates = <<>>
    /\ effects = [derived |-> TRUE, animation |-> TRUE]
    /\ cleanup = FALSE
    /\ lastOp = Op("mount", "", <<>>, initialParameters)
    /\ halted = "no"
    /\ ticks = 0
    /\ edits = 0

Init ==
    /\ SimInit
    /\ call = <<>>
    /\ result = <<>>

\* the Start button (disabled while playing)
Start ==
    /\ ~isPlaying
    /\ Commit(DiscreteEvent(World, startSimulation(World)))
    /\ lastOp' = Op("start", "", <<>>, initialParameters)
    /\ halted' = "no"
    /\ ticks' = 0
    /\ UNCHANGED <<edits, call, result>>

\* the Stop button (disabled unless playing)
Stop ==
    /\ isPlaying
    /\ Commit(DiscreteEvent(World, stopSimulation(World)))
    /\ lastOp' = Op("stop", "", <<>>, initialParameters)
    /\ halted' = "stop"
    /\ UNCHANGED <<ticks, edits, call, result>>

\* the Reset button
Reset ==
    /\ Commit(DiscreteEvent(World, resetSimulation(World)))
    /\ lastOp' = Op("reset", "", <<>>, initialParameters)
    /\ halted' = "reset"
    /\ UNCHANGED <<ticks, edits, call, result>>

\* an entry typed into one of the five parameter fields
ParameterChange ==
    /\ edits < MaxEdits
    /\ \E param \in ParamNames, value \in RawInputs :
          /\ Commit(DiscreteEvent(World, handleParameterChange(World, param, value)))
          /\ lastOp' = Op("edit", param, value, initialParameters)
    /\ edits' = edits + 1
    /\ UNCHANGED <<halted, ticks, call, result>>

\* the browser runs the oldest pending frame callback
AnimationFrame ==
    /\ frames # <<>>
    /\ ticks < MaxTime
    /\ Len(SelectSeq(updates, LAMBDA u : u.hook = "time")) < MaxQueue
    /\ LET p == Head(frames).closure
           w == [World EXCEPT !.frames = Tail(@)]
       IN  /\ \E eager \in {b \in BOOLEAN : b => updates = <<>>} :
                 Commit(animate(w, p, eager))
           /\ lastOp' = Op("frame", "", <<>>, p)
    /\ ticks' = ticks + 1
    /\ UNCHANGED <<halted, edits, call, result>>

\* the scheduler task that renders the updates dispatched outside an event;
\* the effects of this commit wait for a later task
RenderPending ==
    /\ updates # <<>>
    /\ \E w \in {FlushPassiveEffects(World)} : Commit(Render(w))
    /\ lastOp' = Op("render", "", <<>>, initialParameters)
    /\ UNCHANGED <<halted, ticks, edits, call, result>>

\* the scheduler task that runs the passive effects of the last commit
RunEffects ==
    /\ effects # noEffects
    /\ Commit(FlushPassiveEffects(World))
    /\ lastOp' = Op("effects", "", <<>>, initialParameters)
    /\ UNCHANGED <<halted, ticks, edits, call, result>>

Next ==
    \/ Start
    \/ Stop
    \/ Reset
    \/ ParameterChange
    \/ AnimationFrame
    \/ RenderPending
    \/ RunEffects

Spec == Init /\ [][Next]_vars

TypeOK ==
    /\ isPlaying \in BOOLEAN
    /\ time \in 0..(MaxTime * TimeStep)
    /\ animationRef \in BOOLEAN
    /\ cleanup \in BOOLEAN
    /\ halted \in {"no", "stop", "reset"}

(***************************************************************************)
(* Claims about the earthquake simulation.                                 *)
(***************************************************************************)
\* the time the clock shows once every pending update is rendered
pendingTicks == Len(SelectSeq(updates, LAMBDA u : u.hook = "time"))

\* C1: after stop(), and in stop() itself, neither elapsedTime nor the
\* displacement changes until the next start(), also when a frame had fired
\* and its state update was still pending when stop() was called.
C1_StopFreezesState ==
    [][halted' = "stop" => (time' = time /\ displacement' = displacement)]_vars

\* C2: after reset() the simulation is stopped with elapsedTime = 0 and
\* displacement = 0, and both stay 0 until the next start(), also when a
\* frame's state update was pending when reset() was called.
C2_ResetZeroes ==
    halted = "reset" => (~isPlaying /\ time = 0 /\ displacement = noDisplacement)

\* C3: start() leaves the simulation Running with elapsedTime = 0 whatever the
\* time at which an earlier run was frozen.
C3_StartRestartsClock ==
    lastOp.name = "start" => (isPlaying /\ time = 0)

\* C3 witness: start() was pressed after an earlier run had advanced the clock
\* and computed a displacement
C3_Witness ==
    lastOp.name = "start" /\ isPlaying /\ displacement.t >= TimeStep

\* C4: while Running, n frame callbacks advance elapsedTime by exactly n steps
\* of 0.02 s, none skipped or merged, and the displacement shown is the one
\* computed for the new time.
C4_EveryTickOneStep ==
    isPlaying =>
        /\ time + TimeStep * pendingTicks = TimeStep * ticks
        /\ (updates = <<>> /\ ticks > 0) =>
              displacement = animateDisplacement(displacement.from, time)

\* C4 witness: two frames have fired since start() and both are rendered
C4_Witness ==
    isPlaying /\ ticks = 2 /\ updates = <<>> /\ time = 2 * TimeStep

\* C5: the first frame that fires after an accepted edit while Running
\* computes the displacement from the edited parameter values: the parameters
\* its callback holds are the committed ones, with the natural frequency of
\* the committed mass and stiffness.
C5_NextTickUsesEdit ==
    lastOp.name = "frame" =>
        /\ \A f \in ParamNames : lastOp.closure[f] = parameters[f]
        /\ lastOp.closure.naturalFreq =
              naturalFrequency(parameters.stiffness, parameters.mass)

\* an entry handleParameterChange must reject
Rejected(value) == IsNaN(parseFloat(value)) \/ ~IsPositive(parseFloat(value))

\* C6: an entry that does not parse to a number, or that is <= 0, changes
\* neither the parameters nor elapsedTime, displacement or the running flag
\* (nor anything React or the browser holds for the component).
C6_RejectedEditChangesNothing ==
    [][(lastOp'.name = "edit" /\ Rejected(lastOp'.value)) =>
          UNCHANGED <<isPlaying, time, parameters, displacement, animationRef,
                      frames, updates, effects, cleanup>>]_vars

\* C6 witness: a rejected entry was typed while the simulation was running
\* with a frame pending
C6_Witness ==
    lastOp.name = "edit" /\ Rejected(lastOp.value) /\ isPlaying /\ frames # <<>>

\* C7: the displacement the renderer reads is finite in every reachable state
\* (a frame whose natural frequency is zero or not finite holds the last
\* finite displacement).
C7_DisplacementFinite == IsFinite(displacement.val)

(***************************************************************************)
(* Exact rationals <<numerator, denominator>> in lowest terms, denominator *)
(* positive: the arithmetic of the formula library and of the grid         *)
(* utilities on inputs far from the limits of a double.                    *)
(***************************************************************************)
Abs(n) == IF n < 0 THEN -n ELSE n

RECURSIVE Gcd(_, _)
Gcd(a, b) == IF b = 0 THEN a ELSE Gcd(b, a % b)

Q(n, d) ==
    LET g == Gcd(Abs(n), Abs(d))
        sg == IF d < 0 THEN -1 ELSE 1
    IN  <<sg * (n \div g), sg * (d \div g)>>

QInt(n) == <<n, 1>>
QAdd(a, b) ==
    LET g == Gcd(a[2], b[2])
    IN  Q(a[1] * (b[2] \div g) + b[1] * (a[2] \div g), (a[2] \div g) * b[2])
QNeg(a) == <<-a[1], a[2]>>
QSub(a, b) == QAdd(a, QNeg(b))
QMul(a, b) ==
    LET g1 == Gcd(Abs(a[1]), b[2])
        g2 == Gcd(Abs(b[1]), a[2])
    IN  Q((a[1] \div g1) * (b[1] \div g2), (a[2] \div g2) * (b[2] \div g1))
QInv(a) == Q(a[2], a[1])

(***************************************************************************)
(* FORMULAS.dynamicAmplification. A result is either infinite or finite,   *)
(* and a finite positive result is given by its square.                    *)
(***************************************************************************)
\* 1 / Math.sqrt(q) for q >= 0: division by zero gives Infinity
inverseRoot(q) ==
    IF q[1] = 0 THEN [k |-> "inf", sq |-> QInt(0)]
    ELSE [k |-> "fin", sq |-> QInv(q)]

\* a variant that special-cases the zero denominator by throwing
dynamicAmplification_throws(frequencyRatio, dampingRatio) ==
    LET detuning == QSub(QInt(1), QMul(frequencyRatio, frequencyRatio))
        dampingTerm == QMul(QMul(QInt(2), dampingRatio), frequencyRatio)
        radicand == QAdd(QMul(detuning, detuning), QMul(dampingTerm, dampingTerm))
    IN  IF radicand[1] = 0 THEN [k |-> "throw", sq |-> QInt(0)]
        ELSE inverseRoot(radicand)

\* the damping term without its factor 2
dynamicAmplification_halved(frequencyRatio, dampingRatio) ==
    LET detuning == QSub(QInt(1), QMul(frequencyRatio, frequencyRatio))
        dampingTerm == QMul(dampingRatio, frequencyRatio)
    IN  inverseRoot(QAdd(QMul(detuning, detuning), QMul(dampingTerm, dampingTerm)))

dynamicAmplification(frequencyRatio, dampingRatio) ==
    LET detuning == QSub(QInt(1), QMul(frequencyRatio, frequencyRatio))
        dampingTerm == QMul(QMul(QInt(2), dampingRatio), frequencyRatio)
    IN  inverseRoot(QAdd(QMul(detuning, detuning), QMul(dampingTerm, dampingTerm)))

(***************************************************************************)
(* The grid utilities compute in IEEE 754 binary64, and their results at   *)
(* decimal inputs depend on its rounding, so the arithmetic is computed    *)
(* exactly. A natural number is a sequence of limbs in base 2^15, least    *)
(* significant first, with no leading zero limb (zero is the empty         *)
(* sequence).                                                              *)
(***************************************************************************)
Limb == 2^15
LimbBits == 15

BTrim(s) ==
    Let(s, LAMBDA a :
        SubSeq(a, 1, CHOOSE n \in 0..Len(a) :
                        /\ (n = 0 \/ a[n] # 0)
                        /\ \A j \in (n + 1)..Len(a) : a[j] = 0))

RECURSIVE BOfInt(_)
BOfInt(n) == IF n = 0 THEN <<>> ELSE <<n % Limb>> \o BOfInt(n \div Limb)

BDigit(a, i) == IF i <= Len(a) THEN a[i] ELSE 0

RECURSIVE BAddFrom(_, _, _, _)
BAddFrom(a, b, i, carry) ==
    IF i > Len(a) /\ i > Len(b)
    THEN IF carry = 0 THEN <<>> ELSE <<carry>>
    ELSE Let(BDigit(a, i) + BDigit(b, i) + carry, LAMBDA t :
            <<t % Limb>> \o BAddFrom(a, b, i + 1, t \div Limb))

BAdd(x, y) == Let2(x, y, LAMBDA a, b : BAddFrom(a, b, 1, 0))

\* a - b for a >= b
RECURSIVE BSubFrom(_, _, _, _)
BSubFrom(a, b, i, borrow) ==
    IF i > Len(a) THEN <<>>
    ELSE Let(a[i] - BDigit(b, i) - borrow, LAMBDA t :
            IF t < 0 THEN <<t + Limb>> \o BSubFrom(a, b, i + 1, 1)
            ELSE <<t>> \o BSubFrom(a, b, i + 1, 0))

BSub(x, y) == Let2(x, y, LAMBDA a, b : BTrim(BSubFrom(a, b, 1, 0)))

\* -1, 0, 1 as a < b, a = b, a > b
RECURSIVE BCmpAt(_, _, _)
BCmpAt(a, b, i) ==
    IF i = 0 THEN 0
    ELSE IF a[i] < b[i] THEN -1
    ELSE IF a[i] > b[i] THEN 1
    ELSE BCmpAt(a, b, i - 1)

BCmp(x, y) ==
    Let2(x, y, LAMBDA a, b :
        IF Len(a) < Len(b) THEN -1
        ELSE IF Len(a) > Len(b) THEN 1
        ELSE BCmpAt(a, b, Len(a)))

RECURSIVE BMulSmallFrom(_, _, _, _)
BMulSmallFrom(a, k, i, carry) ==
    IF i > Len(a)
    THEN IF carry = 0 THEN <<>> ELSE <<carry>>
    ELSE Let(a[i] * k + carry, LAMBDA t :
            <<t % Limb>> \o BMulSmallFrom(a, k, i + 1, t \div Limb))

\* a * k for 0 <= k < Limb
BMulSmall(x, y) ==
    Let2(x, y, LAMBDA a, k : IF k = 0 THEN <<>> ELSE BMulSmallFrom(a, k, 1, 0))

BShiftLimbs(x, n) ==
    Let(x, LAMBDA a : IF a = <<>> THEN <<>> ELSE [i \in 1..n |-> 0] \o a)

RECURSIVE BMulFrom(_, _, _)
BMulFrom(a, b, i) ==
    IF i > Len(b) THEN <<>>
    ELSE BAdd(BShiftLimbs(BMulSmall(a, b[i]), i - 1), BMulFrom(a, b, i + 1))

BMul(x, y) == Let2(x, y, LAMBDA a, b : BMulFrom(a, b, 1))

\* a * 2^k
BShl(x, y) ==
    Let2(x, y, LAMBDA a, k :
        BShiftLimbs(BMulSmall(a, 2^(k % LimbBits)), k \div LimbBits))

\* the number of bits of n, 0 <= n < Limb
SmallBitLen(n) == CHOOSE b \in 0..LimbBits : n < 2^b /\ (b = 0 \/ 2^(b - 1) <= n)

BBitLen(x) ==
    Let(x, LAMBDA a :
        IF a = <<>> THEN 0 ELSE LimbBits * (Len(a) - 1) + SmallBitLen(a[Len(a)]))

\* bit i of a, bit 0 the least significant
BBit(a, i) == (BDigit(a, i \div LimbBits + 1) \div 2^(i % LimbBits)) % 2

\* floor(a / 2^k)
BShr(x, y) ==
    Let2(x, y, LAMBDA a, k :
        Let2(k \div LimbBits, k % LimbBits, LAMBDA n, r :
            BTrim([i \in 1..(IF Len(a) > n THEN Len(a) - n ELSE 0) |->
                    (BDigit(a, i + n) \div 2^r)
                        + (BDigit(a, i + n + 1) % 2^r) * 2^(LimbBits - r)])))

\* a mod 2^k
BLowBits(x, y) ==
    Let2(x, y, LAMBDA a, k :
        Let2(k \div LimbBits, k % LimbBits, LAMBDA n, r :
            BTrim([i \in 1..(n + 1) |->
                    IF i <= n THEN BDigit(a, i) ELSE BDigit(a, i) % 2^r])))

\* one step of long division by d, whose top limb is at least Limb / 2:
\* <<k, r2 - k * d>> for r2 = r * Limb + digit and k the quotient r2 \div d,
\* which is at most two below the estimate from the leading limbs
BDivStep(digit, r, d) ==
    Let(BTrim(<<digit>> \o r), LAMBDA r2 :
    Let((BDigit(r2, Len(d) + 1) * Limb + BDigit(r2, Len(d))) \div d[Len(d)], LAMBDA q :
    Let(IF q < Limb THEN q ELSE Limb - 1, LAMBDA est :
    Let(CHOOSE k \in { c \in (est - 2)..est : 0 <= c } :
            /\ BCmp(BMulSmall(d, k), r2) <= 0
            /\ (k + 1 = Limb \/ BCmp(BMulSmall(d, k + 1), r2) > 0), LAMBDA k :
        <<k, BSub(r2, BMulSmall(d, k))>>))))

\* <<quotient limbs, remainder>> of a by d, from limb i of a down
RECURSIVE BDivFrom(_, _, _, _, _)
BDivFrom(a, d, i, q, r) ==
    IF i = 0 THEN <<q, r>>
    ELSE Let(BDivStep(a[i], r, d), LAMBDA step :
            BDivFrom(a, d, i - 1, <<step[1]>> \o q, step[2]))

\* <<quotient, remainder>> of x by y > 0
BDivMod(x, y) ==
    Let(LimbBits - SmallBitLen(y[Len(y)]), LAMBDA s :
    Let2(BShl(x, s), BShl(y, s), LAMBDA a, d :
    Let(BDivFrom(a, d, Len(a), <<>>, <<>>), LAMBDA qr :
        <<BTrim(qr[1]), BShr(qr[2], s)>>)))

(***************************************************************************)
(* A finite double is neg * m * 2^e with m odd, or zero. Overflow,         *)
(* subnormals and the sign of zero are beyond the inputs considered.       *)
(***************************************************************************)
DZero == [neg |-> FALSE, m |-> <<>>, e |-> 0]

\* the number of zero bits below the lowest set bit of m > 0
TrailingZeros(m) ==
    Let(CHOOSE i \in 1..Len(m) : m[i] # 0 /\ \A j \in 1..(i - 1) : m[j] = 0, LAMBDA i :
        LimbBits * (i - 1)
            + (CHOOSE z \in 0..(LimbBits - 1) : m[i] % 2^(z + 1) = 2^z))

Double(neg, mag, exp) ==
    Let2(mag, exp, LAMBDA m, e :
        IF m = <<>> THEN DZero
        ELSE Let(TrailingZeros(m), LAMBDA z :
                [neg |-> neg, m |-> BShr(m, z), e |-> e + z]))

Significand == 53

\* the double nearest (q + f) * 2^e, ties to even, where 0 <= f < 1 and
\* sticky says f > 0; when sticky, q has more than Significand bits
RoundToDouble(neg, quotient, sticky, exp) ==
    Let2(quotient, exp, LAMBDA q, e :
        Let(BBitLen(q) - Significand, LAMBDA drop :
            IF drop <= 0 THEN Double(neg, q, e)
            ELSE Let2(BShr(q, drop), BCmp(BLowBits(q, drop), BShl(<<1>>, drop - 1)),
                    LAMBDA m, c :
                        IF c > 0 \/ (c = 0 /\ (sticky \/ BBit(m, 0) = 1))
                        THEN Double(neg, BAdd(m, <<1>>), e + drop)
                        ELSE Double(neg, m, e + drop))))

DOfInt(n) == Double(n < 0, BOfInt(IF n < 0 THEN -n ELSE n), 0)
DNeg(a) == Let(a, LAMBDA x : IF x.m = <<>> THEN x ELSE [x EXCEPT !.neg = ~x.neg])

DAdd(p, q) ==
    Let2(p, q, LAMBDA x, y :
        IF x.m = <<>> THEN y
        ELSE IF y.m = <<>> THEN x
        ELSE Let(IF x.e < y.e THEN x.e ELSE y.e, LAMBDA e :
             Let2(BShl(x.m, x.e - e), BShl(y.m, y.e - e), LAMBDA a, b :
                IF x.neg = y.neg THEN RoundToDouble(x.neg, BAdd(a, b), FALSE, e)
                ELSE IF BCmp(a, b) >= 0 THEN RoundToDouble(x.neg, BSub(a, b), FALSE, e)
                ELSE RoundToDouble(y.neg, BSub(b, a), FALSE, e))))

DSub(p, q) == DAdd(p, DNeg(q))

DMul(p, q) ==
    Let2(p, q, LAMBDA x, y :
        RoundToDouble(x.neg # y.neg, BMul(x.m, y.m), FALSE, x.e + y.e))

\* p / q for q # 0
DDiv(p, q) ==
    Let2(p, q, LAMBDA x, y :
        IF x.m = <<>> THEN DZero
        ELSE Let(Significand + 2 + BBitLen(y.m) - BBitLen(x.m), LAMBDA need :
             Let(IF need > 0 THEN need ELSE 0, LAMBDA s :
             Let(BDivMod(BShl(x.m, s), y.m), LAMBDA qr :
                RoundToDouble(x.neg # y.neg, qr[1], qr[2] # <<>>, x.e - y.e - s)))))

DLt(p, q) == Let(DSub(p, q), LAMBDA d : d.m # <<>> /\ d.neg)
DLe(p, q) == Let(DSub(p, q), LAMBDA d : d.m = <<>> \/ d.neg)

\* Math.floor
DFloor(a) ==
    Let(a, LAMBDA x :
        IF x.e >= 0 THEN x
        ELSE Let(BShr(x.m, -x.e), LAMBDA ip :
                IF x.neg THEN Double(TRUE, BAdd(ip, <<1>>), 0) ELSE Double(FALSE, ip, 0)))

\* Math.ceil
DCeil(x) == DNeg(DFloor(DNeg(x)))

DIsInteger(x) == x.e >= 0

\* the double a decimal literal n/d denotes
DOfRatio(n, d) == DDiv(DOfInt(n), DOfInt(d))

(***************************************************************************)
(* calculateGridSpacing(min, max, targetDivisions), for min < max.         *)
(***************************************************************************)
\* Math.pow(10, n) for an integer n
MathPow10(exponent) ==
    Let(exponent, LAMBDA n :
        IF n >= 0 THEN DOfInt(10^n) ELSE DDiv(DOfInt(1), DOfInt(10^(-n))))

\* the n with 10^n <= x < 10^(n+1), searched from the exponent n
RECURSIVE DecadeFrom(_, _)
DecadeFrom(x, n) ==
    IF DLt(x, MathPow10(n)) THEN DecadeFrom(x, n - 1)
    ELSE IF DLe(MathPow10(n + 1), x) THEN DecadeFrom(x, n + 1)
    ELSE n

\* Math.floor(Math.log10(x)) for x > 0. Within a few units in the last
\* place below a power of ten the logarithm may round to the integer
\* above; roundsUp says whether the library does so.
FloorLog10(rawSpacing, roundsUp) ==
    Let(rawSpacing, LAMBDA x :
    Let(DecadeFrom(x, 0), LAMBDA n :
        IF roundsUp /\ DLe(DMul(MathPow10(n + 1),
                                DSub(DOfInt(1), Double(FALSE, <<1>>, -51))), x)
        THEN n + 1
        ELSE n))

\* the last threshold never reached: 5 < normalized gives 5 * magnitude
calculateGridSpacing_noTen(min, max, targetDivisions, roundsUp) ==
    Let(DSub(max, min), LAMBDA range :
    Let(DDiv(range, targetDivisions), LAMBDA rawSpacing :
    Let(MathPow10(FloorLog10(rawSpacing, roundsUp)), LAMBDA magnitude :
    Let(DDiv(rawSpacing, magnitude), LAMBDA normalized :
    Let(IF DLe(normalized, DOfInt(1)) THEN magnitude
        ELSE IF DLe(normalized, DOfInt(2)) THEN DMul(DOfInt(2), magnitude)
        ELSE DMul(DOfInt(5), magnitude), LAMBDA niceSpacing :
    Let2(DMul(DFloor(DDiv(min, niceSpacing)), niceSpacing),
         DMul(DCeil(DDiv(max, niceSpacing)), niceSpacing), LAMBDA gridMin, gridMax :
        [spacing |-> niceSpacing, min |-> gridMin, max |-> gridMax,
         divisions |-> DDiv(DSub(gridMax, gridMin), niceSpacing)]))))))

calculateGridSpacing(min, max, targetDivisions, roundsUp) ==
    Let(DSub(max, min), LAMBDA range :
    Let(DDiv(range, targetDivisions), LAMBDA rawSpacing :
    Let(MathPow10(FloorLog10(rawSpacing, roundsUp)), LAMBDA magnitude :
    Let(DDiv(rawSpacing, magnitude), LAMBDA normalized :
    Let(IF DLe(normalized, DOfInt(1)) THEN magnitude
        ELSE IF DLe(normalized, DOfInt(2)) THEN DMul(DOfInt(2), magnitude)
        ELSE IF DLe(normalized, DOfInt(5)) THEN DMul(DOfInt(5), magnitude)
        ELSE DMul(DOfInt(10), magnitude), LAMBDA niceSpacing :
    Let2(DMul(DFloor(DDiv(min, niceSpacing)), niceSpacing),
         DMul(DCeil(DDiv(max, niceSpacing)), niceSpacing), LAMBDA gridMin, gridMax :
        [spacing |-> niceSpacing, min |-> gridMin, max |-> gridMax,
         divisions |-> DDiv(DSub(gridMax, gridMin), niceSpacing)]))))))

(***************************************************************************)
(* The pure functions under bounded inputs. `call` holds one invocation    *)
(* and `result` its return value once evaluated; the simulation component  *)
(* stays as mounted.                                                       *)
(***************************************************************************)
MaxRatioSteps == 30     \* frequency ratios range over 0..MaxRatioSteps twentieths
MaxDampingSteps == 20   \* damping ratios range over 0..MaxDampingSteps twentieths
GridSpan == 8           \* axis limits range over -GridSpan..GridSpan tenths
MaxDivisions == 2       \* targetDivisions ranges over 1..MaxDivisions, and 10

AmplificationCalls ==
    { [fn |-> "dynamicAmplification", args |-> <<Q(rn, 20), Q(zn, 20)>>] :
        rn \in 0..MaxRatioSteps, zn \in 0..MaxDampingSteps }

\* closures of animate at resonance: the forcing frequency is the natural
\* frequency and the damping is zero, or so small that its square is zero
ResonanceClosures ==
    { [initialParameters EXCEPT !.naturalFreq = initialParameters.frequency,
                                !.damping = d] :
        d \in {Zero, parseFloat(<<"1", "e", "-", "3", "2", "3">>)} }

TickCalls ==
    { [fn |-> "animate", args |-> <<TimeStep * n, p>>] :
        n \in 0..MaxTime, p \in ResonanceClosures }

FormulaInit ==
    /\ SimInit
    /\ call \in AmplificationCalls \cup TickCalls
    /\ result = <<>>

EvaluateAmplification ==
    /\ result = <<>>
    /\ call.fn = "dynamicAmplification"
    /\ result' = <<dynamicAmplification(call.args[1], call.args[2])>>
    /\ UNCHANGED <<call, simVars>>

EvaluateTick ==
    /\ result = <<>>
    /\ call.fn = "animate"
    /\ result' = <<animateUpdater(call.args[1], call.args[2])>>
    /\ UNCHANGED <<call, simVars>>

FormulaNext == EvaluateAmplification \/ EvaluateTick

SpecFormula == FormulaInit /\ [][FormulaNext]_vars

\* axis limits written as decimal literals with one fractional digit
Tenths == { DOfRatio(n, 10) : n \in (-GridSpan)..GridSpan }

GridCalls ==
    { [fn |-> "calculateGridSpacing", args |-> <<min, max, DOfInt(targetDivisions)>>] :
        min \in Tenths, max \in Tenths \cup {DOfInt(97)},
        targetDivisions \in (1..MaxDivisions) \cup {10} }

GridInit ==
    /\ SimInit
    /\ call \in { c \in GridCalls : DLt(c.args[1], c.args[2]) }
    /\ result = <<>>

EvaluateGridSpacing ==
    /\ result = <<>>
    /\ call.fn = "calculateGridSpacing"
    /\ \E roundsUp \in BOOLEAN :
        result' = <<calculateGridSpacing(call.args[1], call.args[2], call.args[3], roundsUp)>>
    /\ UNCHANGED <<call, simVars>>

GridNext == EvaluateGridSpacing

SpecGrid == GridInit /\ [][GridNext]_vars

GridMultipliers == {1, 2, 5, 10}
GridExponents == -3..2

\* C9: the spacing is m * 10^n with m in {1, 2, 5, 10}, and it is the
\* smallest such value that is at least (max - min) / targetDivisions;
\* calculateGridSpacing(0, 97, 10) gives spacing 10, min 0, max 100 and 10
\* divisions.
C9_NiceSpacing ==
    (result # <<>> /\ call.fn = "calculateGridSpacing") =>
        LET rawSpacing == DDiv(DSub(call.args[2], call.args[1]), call.args[3])
            Nice == { DMul(DOfInt(m), MathPow10(n)) : m \in GridMultipliers, n \in GridExponents }
            g == result[1]
        IN  /\ g.spacing \in Nice
            /\ DLe(rawSpacing, g.spacing)
            /\ \A c \in Nice : DLe(rawSpacing, c) => DLe(g.spacing, c)
            /\ call.args = <<DOfInt(0), DOfInt(97), DOfInt(10)>> =>
                g = [spacing |-> DOfInt(10), min |-> DOfInt(0), max |-> DOfInt(100),
                     divisions |-> DOfInt(10)]

C9_Witness ==
    /\ result # <<>>
    /\ call.fn = "calculateGridSpacing"
    /\ call.args = <<DOfInt(0), DOfInt(97), DOfInt(10)>>
    /\ result[1].spacing = DOfInt(10)

\* C10: gridMin <= min and gridMax >= max, both are integer multiples of
\* the spacing, and divisions is the whole number (gridMax - gridMin) / spacing.
C10_GridCoversRange ==
    (result # <<>> /\ call.fn = "calculateGridSpacing") =>
        LET g == result[1]
        IN  /\ DLe(g.min, call.args[1])
            /\ DLe(call.args[2], g.max)
            /\ DIsInteger(DDiv(g.min, g.spacing))
            /\ DIsInteger(DDiv(g.max, g.spacing))
            /\ DIsInteger(g.divisions)
            /\ g.divisions = DDiv(DSub(g.max, g.min), g.spacing)

(***************************************************************************)
(* generateTicks(min, max, spacing), for spacing > 0.                      *)
(***************************************************************************)
\* Math.round: the nearest integer, a tie going to the integer above
MathRound(a) ==
    Let(a, LAMBDA x :
    Let(DFloor(x), LAMBDA below :
        IF DLe(DOfRatio(1, 2), DSub(x, below)) THEN DAdd(below, DOfInt(1)) ELSE below))

\* the for loop: value is the loop variable, array the ticks pushed so far
RECURSIVE generateTicksFrom(_, _, _, _)
generateTicksFrom(value, max, spacing, array) ==
    IF DLe(value, max)
    THEN Let2(DAdd(value, spacing),
              Append(array, DMul(MathRound(DDiv(value, spacing)), spacing)),
              LAMBDA next, pushed : generateTicksFrom(next, max, spacing, pushed))
    ELSE array

generateTicks(min, max, spacing) ==
    Let(DMul(DCeil(DDiv(min, spacing)), spacing), LAMBDA start :
        generateTicksFrom(start, max, spacing, <<>>))

TickSpan == 16          \* tick limits range over 0..TickSpan tenths

TickSpacings == { DOfRatio(n, 10) : n \in {1, 2, 5} }

TicksCalls ==
    { [fn |-> "generateTicks", args |-> <<DOfRatio(a, 10), DOfRatio(b, 10), spacing>>] :
        a \in 0..TickSpan, b \in 0..TickSpan, spacing \in TickSpacings }
    \cup { [fn |-> "generateTicks", args |-> <<DOfInt(0), DOfInt(100), DOfInt(10)>>] }

TicksInit ==
    /\ SimInit
    /\ call \in { c \in TicksCalls : DLe(c.args[1], c.args[2]) }
    /\ result = <<>>

EvaluateTicks ==
    /\ result = <<>>
    /\ call.fn = "generateTicks"
    /\ result' = <<generateTicks(call.args[1], call.args[2], call.args[3])>>
    /\ UNCHANGED <<call, simVars>>

TicksNext == EvaluateTicks

SpecTicks == TicksInit /\ [][TicksNext]_vars

\* the multiples k * spacing that lie in [min, max], in increasing order of k
MultiplesWithin(min, max, spacing) ==
    LET last == CHOOSE k \in 0..(10 * TickSpan) :
                    /\ DLe(DMul(DOfInt(k), spacing), max)
                    /\ ~DLe(DMul(DOfInt(k + 1), spacing), max)
        first == CHOOSE k \in 0..(last + 1) :
                    /\ DLe(min, DMul(DOfInt(k), spacing))
                    /\ (k = 0 \/ ~DLe(min, DMul(DOfInt(k - 1), spacing)))
    IN  [i \in 1..(last - first + 1) |-> DMul(DOfInt(first + i - 1), spacing)]

\* C11: generateTicks returns exactly the multiples of spacing in [min, max],
\* each once and in increasing order, starting at the smallest multiple that
\* is >= min; generateTicks(0, 100, 10) is 0, 10, ..., 100.
C11_TicksAreTheMultiples ==
    (result # <<>> /\ call.fn = "generateTicks") =>
        /\ result[1] = MultiplesWithin(call.args[1], call.args[2], call.args[3])
        /\ \A i \in 1..(Len(result[1]) - 1) : DLt(result[1][i], result[1][i + 1])
        /\ call.args = <<DOfInt(0), DOfInt(100), DOfInt(10)>> =>
              result[1] = [i \in 1..11 |-> DOfInt(10 * (i - 1))]

(***************************************************************************)
(* The isometric projection. An angle is written as the expression that    *)
(* denotes it; Math.cos and Math.sin give the doubles the library returns  *)
(* at these angles.                                                        *)
(***************************************************************************)
MathCos(angle) ==
    CASE angle = "PI/6"  -> Double(FALSE, <<19627, 20656, 23019, 221>>, -53)
      [] angle = "-PI/6" -> Double(FALSE, <<19627, 20656, 23019, 221>>, -53)
      [] angle = "PI/2"  -> Double(FALSE, <<23559, 26152, 6296, 141>>, -106)

MathSin(angle) ==
    CASE angle = "PI/6"  -> Double(FALSE, <<32767, 32767, 32767, 255>>, -54)
      [] angle = "-PI/6" -> Double(TRUE, <<32767, 32767, 32767, 255>>, -54)
      [] angle = "PI/2"  -> DOfInt(1)

ISOMETRIC_CONFIG ==
    [angleX |-> "PI/6", angleY |-> "-PI/6", angleZ |-> "PI/2",
     scaleX |-> DOfRatio(866, 1000), scaleY |-> DOfRatio(866, 1000),
     scaleZ |-> DOfInt(1), depthScale |-> DOfRatio(1, 2)]

\* the vertical axis measured from one unit up: z - 1 in place of z
project3DToIsometric_shifted(x, y, z, config) ==
    Let2(DSub(DMul(x, MathCos(config.angleX)), DMul(y, MathCos(config.angleY))),
         DSub(DAdd(DMul(x, MathSin(config.angleX)), DMul(y, MathSin(config.angleY))),
              DMul(DSub(z, DOfInt(1)), config.scaleZ)),
         LAMBDA turnedX, turnedY :
            [x |-> DMul(turnedX, config.scaleX), y |-> DMul(turnedY, config.scaleY)])

project3DToIsometric(x, y, z, config) ==
    Let2(DSub(DMul(x, MathCos(config.angleX)), DMul(y, MathCos(config.angleY))),
         DSub(DAdd(DMul(x, MathSin(config.angleX)), DMul(y, MathSin(config.angleY))),
              DMul(z, config.scaleZ)),
         LAMBDA turnedX, turnedY :
            [x |-> DMul(turnedX, config.scaleX), y |-> DMul(turnedY, config.scaleY)])

create3DPoint(x, y, z) == [x |-> x, y |-> y, z |-> z]

(***************************************************************************)
(* create3DBox and draw3DBox. Arrays keep their JavaScript indices: the    *)
(* vertices are functions on 0..7 and a face is the sequence of the vertex *)
(* indices it joins.                                                       *)
(***************************************************************************)
\* the front face listed across its diagonal
create3DBox_crossed(center, width, depth, height, config) ==
    LET cx == center.x
        cy == center.y
        cz == center.z
    IN
    Let(DDiv(width, DOfInt(2)), LAMBDA hw :
    Let(DDiv(depth, DOfInt(2)), LAMBDA hd :
    Let(DDiv(height, DOfInt(2)), LAMBDA hh :
    Let(   0 :> create3DPoint(DSub(cx, hw), DSub(cy, hd), DSub(cz, hh))
        @@ 1 :> create3DPoint(DAdd(cx, hw), DSub(cy, hd), DSub(cz, hh))
        @@ 2 :> create3DPoint(DAdd(cx, hw), DAdd(cy, hd), DSub(cz, hh))
        @@ 3 :> create3DPoint(DSub(cx, hw), DAdd(cy, hd), DSub(cz, hh))
        @@ 4 :> create3DPoint(DSub(cx, hw), DSub(cy, hd), DAdd(cz, hh))
        @@ 5 :> create3DPoint(DAdd(cx, hw), DSub(cy, hd), DAdd(cz, hh))
        @@ 6 :> create3DPoint(DAdd(cx, hw), DAdd(cy, hd), DAdd(cz, hh))
        @@ 7 :> create3DPoint(DSub(cx, hw), DAdd(cy, hd), DAdd(cz, hh)),
        LAMBDA vertices3D :
        [vertices3D |-> vertices3D,
         vertices2D |-> [i \in DOMAIN vertices3D |->
                            project3DToIsometric(vertices3D[i].x, vertices3D[i].y,
                                                 vertices3D[i].z, config)],
         faces |-> [top    |-> <<4, 5, 6, 7>>,
                    front  |-> <<3, 2, 7, 6>>,
                    right  |-> <<1, 2, 6, 5>>,
                    bottom |-> <<0, 1, 2, 3>>,
                    back   |-> <<0, 4, 5, 1>>,
                    left   |-> <<0, 3, 7, 4>>],
         center |-> project3DToIsometric(cx, cy, cz, config)]))))

create3DBox(center, width, depth, height, config) ==
    LET cx == center.x
        cy == center.y
        cz == center.z
    IN
    Let(DDiv(width, DOfInt(2)), LAMBDA hw :
    Let(DDiv(depth, DOfInt(2)), LAMBDA hd :
    Let(DDiv(height, DOfInt(2)), LAMBDA hh :
    Let(   0 :> create3DPoint(DSub(cx, hw), DSub(cy, hd), DSub(cz, hh))
        @@ 1 :> create3DPoint(DAdd(cx, hw), DSub(cy, hd), DSub(cz, hh))
        @@ 2 :> create3DPoint(DAdd(cx, hw), DAdd(cy, hd), DSub(cz, hh))
        @@ 3 :> create3DPoint(DSub(cx, hw), DAdd(cy, hd), DSub(cz, hh))
        @@ 4 :> create3DPoint(DSub(cx, hw), DSub(cy, hd), DAdd(cz, hh))
        @@ 5 :> create3DPoint(DAdd(cx, hw), DSub(cy, hd), DAdd(cz, hh))
        @@ 6 :> create3DPoint(DAdd(cx, hw), DAdd(cy, hd), DAdd(cz, hh))
        @@ 7 :> create3DPoint(DSub(cx, hw), DAdd(cy, hd), DAdd(cz, hh)),
        LAMBDA vertices3D :
        [vertices3D |-> vertices3D,
         vertices2D |-> [i \in DOMAIN vertices3D |->
                            project3DToIsometric(vertices3D[i].x, vertices3D[i].y,
                                                 vertices3D[i].z, config)],
         faces |-> [top    |-> <<4, 5, 6, 7>>,
                    front  |-> <<3, 2, 6, 7>>,
                    right  |-> <<1, 2, 6, 5>>,
                    bottom |-> <<0, 1, 2, 3>>,
                    back   |-> <<0, 4, 5, 1>>,
                    left   |-> <<0, 3, 7, 4>>],
         center |-> project3DToIsometric(cx, cy, cz, config)]))))

\* a property of the style object, or the default of the destructuring
styleOr(style, key, default) == IF key \in DOMAIN style THEN style[key] ELSE default

defaultFillColors == [top |-> "#ffffff", front |-> "#e5e5e5", right |-> "#d4d4d4"]

\* ctx.beginPath(); ctx.moveTo(first vertex); ctx.lineTo(each other vertex);
\* ctx.closePath()
facePath(vertices2D, face) ==
    <<  <<"beginPath">>, <<"moveTo", vertices2D[face[1]].x, vertices2D[face[1]].y>>  >>
    \o [i \in 1..(Len(face) - 1) |->
            <<"lineTo", vertices2D[face[i + 1]].x, vertices2D[face[i + 1]].y>>]
    \o << <<"closePath">> >>

\* the callback of visibleFaces.forEach
drawVisibleFace(box, fillColors, strokeColor, faceName) ==
    (IF faceName \in DOMAIN fillColors
     THEN << <<"fillStyle", fillColors[faceName]>> >>
            \o facePath(box.vertices2D, box.faces[faceName]) \o << <<"fill">> >>
     ELSE <<>>)
    \o << <<"strokeStyle", strokeColor>> >>
    \o facePath(box.vertices2D, box.faces[faceName]) \o << <<"stroke">> >>

\* the callback of hiddenFaces.forEach
drawHiddenFace(box, faceName) ==
    facePath(box.vertices2D, box.faces[faceName]) \o << <<"stroke">> >>

\* array.forEach(callback): calls[i] being the canvas calls the callback
\* makes for the i-th element, all of them in array order
RECURSIVE forEach(_)
forEach(calls) ==
    IF calls = <<>> THEN <<>> ELSE Head(calls) \o forEach(Tail(calls))

\* the face order taken from the box instead of the fixed list: the faces
\* of a box left of the origin are drawn front first
draw3DBox_byPosition(ctx, box, style) ==
    LET fillColors == styleOr(style, "fillColors", defaultFillColors)
        strokeColor == styleOr(style, "strokeColor", "#000000")
        visibleFaces == IF box.center.x.neg THEN <<"front", "right", "top">>
                        ELSE <<"right", "front", "top">>
        hiddenFaces == <<"back", "left", "bottom">>
    IN  ctx
        \o << <<"save">>, <<"lineWidth", styleOr(style, "strokeWidth", 2)>> >>
        \o forEach([i \in DOMAIN visibleFaces |->
                        drawVisibleFace(box, fillColors, strokeColor, visibleFaces[i])])
        \o (IF styleOr(style, "showHiddenEdges", FALSE)
            THEN << <<"strokeStyle", styleOr(style, "hiddenEdgeStyle", "#a3a3a3")>>,
                    <<"setLineDash", <<3, 3>> >> >>
                 \o forEach([i \in DOMAIN hiddenFaces |-> drawHiddenFace(box, hiddenFaces[i])])
                 \o << <<"setLineDash", <<>> >> >>
            ELSE <<>>)
        \o << <<"restore">> >>

\* the canvas calls draw3DBox adds to those made on ctx before
draw3DBox(ctx, box, style) ==
    LET fillColors == styleOr(style, "fillColors", defaultFillColors)
        strokeColor == styleOr(style, "strokeColor", "#000000")
        visibleFaces == <<"right", "front", "top">>
        hiddenFaces == <<"back", "left", "bottom">>
    IN  ctx
        \o << <<"save">>, <<"lineWidth", styleOr(style, "strokeWidth", 2)>> >>
        \o forEach([i \in DOMAIN visibleFaces |->
                        drawVisibleFace(box, fillColors, strokeColor, visibleFaces[i])])
        \o (IF styleOr(style, "showHiddenEdges", FALSE)
            THEN << <<"strokeStyle", styleOr(style, "hiddenEdgeStyle", "#a3a3a3")>>,
                    <<"setLineDash", <<3, 3>> >> >>
                 \o forEach([i \in DOMAIN hiddenFaces |-> drawHiddenFace(box, hiddenFaces[i])])
                 \o << <<"setLineDash", <<>> >> >>
            ELSE <<>>)
        \o << <<"restore">> >>

(***************************************************************************)
(* The projection and the box under bounded inputs.                        *)
(***************************************************************************)
PointSpan == 1          \* coordinates range over -PointSpan..PointSpan
MaxSide == 2            \* box dimensions range over 1..MaxSide

Coordinates == { DOfInt(n) : n \in (-PointSpan)..PointSpan }

Points == { create3DPoint(x, y, z) : x \in Coordinates, y \in Coordinates, z \in Coordinates }

\* box centres on both sides of every axis
Centers == { create3DPoint(a, DNeg(a), a) : a \in Coordinates }

\* the default configuration, and one with other scale factors
Configs ==
    { ISOMETRIC_CONFIG,
      [ISOMETRIC_CONFIG EXCEPT !.scaleX = DOfInt(1), !.scaleY = DOfRatio(1, 2),
                               !.scaleZ = DOfInt(2)] }

Styles ==
    { [strokeWidth |-> 1],
      [showHiddenEdges |-> FALSE],
      [showHiddenEdges |-> TRUE],
      [showHiddenEdges |-> TRUE, fillColors |-> [top |-> "#ff0000"]],
      [showHiddenEdges |-> FALSE, strokeColor |-> "#0000ff",
       fillColors |-> [front |-> "#00ff00", right |-> "#ff0000"]] }

ProjectionCalls ==
    { [fn |-> "project3DToIsometric", args |-> <<p.x, p.y, p.z, config>>] :
        p \in Points, config \in Configs }

BoxCalls ==
    { [fn |-> "create3DBox",
       args |-> <<center, DOfInt(width), DOfInt(depth), DOfInt(height), ISOMETRIC_CONFIG>>] :
        center \in Centers, width \in 1..MaxSide, depth \in 1..MaxSide, height \in 1..MaxSide }

DrawCalls ==
    { [fn |-> "draw3DBox",
       args |-> << <<>>,
                   create3DBox(center, DOfInt(side), DOfInt(side), DOfInt(side),
                               ISOMETRIC_CONFIG),
                   style >>] :
        center \in Centers, side \in 1..MaxSide, style \in Styles }

BoxInit ==
    /\ SimInit
    /\ call \in ProjectionCalls \cup BoxCalls \cup DrawCalls
    /\ result = <<>>

EvaluateProjection ==
    /\ result = <<>>
    /\ call.fn = "project3DToIsometric"
    /\ result' = <<project3DToIsometric(call.args[1], call.args[2], call.args[3],
                                        call.args[4])>>
    /\ UNCHANGED <<call, simVars>>

EvaluateCreateBox ==
    /\ result = <<>>
    /\ call.fn = "create3DBox"
    /\ result' = <<create3DBox(call.args[1], call.args[2], call.args[3], call.args[4],
                               call.args[5])>>
    /\ UNCHANGED <<call, simVars>>

EvaluateDrawBox ==
    /\ result = <<>>
    /\ call.fn = "draw3DBox"
    /\ result' = <<draw3DBox(call.args[1], call.args[2], call.args[3])>>
    /\ UNCHANGED <<call, simVars>>

BoxNext == EvaluateProjection \/ EvaluateCreateBox \/ EvaluateDrawBox

SpecBox == BoxInit /\ [][BoxNext]_vars

\* the paths filled or stroked by a sequence of canvas calls, in call order:
\* each with the points of the path open when fill() or stroke() is called
PathsDrawn(calls) ==
    LET painted == SelectSeq([i \in 1..Len(calls) |-> i],
                             LAMBDA i : calls[i][1] \in {"fill", "stroke"})
        begin(i) == CHOOSE b \in 1..i :
                        /\ calls[b][1] = "beginPath"
                        /\ \A j \in (b + 1)..i : calls[j][1] # "beginPath"
        points(i) == SelectSeq(SubSeq(calls, begin(i), i),
                               LAMBDA c : c[1] \in {"moveTo", "lineTo"})
    IN  [k \in 1..Len(painted) |->
            [kind |-> calls[painted[k]][1],
             points |-> [n \in 1..Len(points(painted[k])) |->
                            <<points(painted[k])[n][2], points(painted[k])[n][3]>>]]]

\* the projected corners of a face, in the order the face lists them
Outline(box, faceName) ==
    [n \in 1..Len(box.faces[faceName]) |->
        <<box.vertices2D[box.faces[faceName][n]].x, box.vertices2D[box.faces[faceName][n]].y>>]

\* C12: draw3DBox outlines the faces right, front, top in this order for
\* every box and style, then back, left, bottom when showHiddenEdges is set
\* and not otherwise; a fill is of a visible face and comes immediately
\* before that face's outline.
C12_FixedFaceOrder ==
    (result # <<>> /\ call.fn = "draw3DBox") =>
        LET box == call.args[2]
            drawn == PathsDrawn(result[1])
            strokes == SelectSeq(drawn, LAMBDA d : d.kind = "stroke")
            order == <<"right", "front", "top">>
                        \o (IF styleOr(call.args[3], "showHiddenEdges", FALSE)
                            THEN <<"back", "left", "bottom">> ELSE <<>>)
        IN  /\ Len(strokes) = Len(order)
            /\ \A i \in 1..Len(order) : strokes[i].points = Outline(box, order[i])
            /\ \A j \in 1..Len(drawn) :
                  drawn[j].kind = "fill" =>
                      /\ drawn[j].points \in { Outline(box, f) : f \in {"right", "front", "top"} }
                      /\ j < Len(drawn)
                      /\ drawn[j + 1] = [kind |-> "stroke", points |-> drawn[j].points]

\* C12 witness: a box left of the origin was drawn with its hidden edges
C12_Witness ==
    /\ result # <<>>
    /\ call.fn = "draw3DBox"
    /\ call.args[2].center.x.neg
    /\ styleOr(call.args[3], "showHiddenEdges", FALSE)
    /\ Len(SelectSeq(result[1], LAMBDA c : c[1] = "stroke")) = 6

\* the coordinate all four corners of a face share
FaceCoordinate(center, width, depth, height, faceName) ==
    CASE faceName = "top"    -> <<"z", DAdd(center.z, DDiv(height, DOfInt(2)))>>
      [] faceName = "bottom" -> <<"z", DSub(center.z, DDiv(height, DOfInt(2)))>>
      [] faceName = "front"  -> <<"y", DAdd(center.y, DDiv(depth, DOfInt(2)))>>
      [] faceName = "back"   -> <<"y", DSub(center.y, DDiv(depth, DOfInt(2)))>>
      [] faceName = "right"  -> <<"x", DAdd(center.x, DDiv(width, DOfInt(2)))>>
      [] faceName = "left"   -> <<"x", DSub(center.x, DDiv(width, DOfInt(2)))>>

\* C13: create3DBox returns the 8 corners center +/- (width/2, depth/2,
\* height/2) on the indices 0..7, their projections on the same indices, and
\* the six faces top, front, right, bottom, back, left, each 4 distinct
\* indices whose corners share the face's coordinate and follow one another
\* along edges of the box.
C13_BoxCornersAndFaces ==
    (result # <<>> /\ call.fn = "create3DBox") =>
        LET box == result[1]
            center == call.args[1]
            corners == { create3DPoint(x, y, z) :
                            x \in { DSub(center.x, DDiv(call.args[2], DOfInt(2))),
                                    DAdd(center.x, DDiv(call.args[2], DOfInt(2))) },
                            y \in { DSub(center.y, DDiv(call.args[3], DOfInt(2))),
                                    DAdd(center.y, DDiv(call.args[3], DOfInt(2))) },
                            z \in { DSub(center.z, DDiv(call.args[4], DOfInt(2))),
                                    DAdd(center.z, DDiv(call.args[4], DOfInt(2))) } }
            differing(v, w) == Cardinality({ axis \in {"x", "y", "z"} : v[axis] # w[axis] })
        IN  /\ DOMAIN box.vertices3D = 0..7
            /\ Cardinality(corners) = 8
            /\ { box.vertices3D[i] : i \in 0..7 } = corners
            /\ DOMAIN box.vertices2D = 0..7
            /\ \A i \in 0..7 :
                  box.vertices2D[i] =
                      project3DToIsometric(box.vertices3D[i].x, box.vertices3D[i].y,
                                           box.vertices3D[i].z, call.args[5])
            /\ DOMAIN box.faces = {"top", "front", "right", "bottom", "back", "left"}
            /\ \A f \in DOMAIN box.faces :
                  LET face == box.faces[f]
                      shared == FaceCoordinate(center, call.args[2], call.args[3],
                                               call.args[4], f)
                  IN  /\ Len(face) = 4
                      /\ Cardinality({ face[n] : n \in 1..4 }) = 4
                      /\ \A n \in 1..4 :
                            /\ face[n] \in 0..7
                            /\ box.vertices3D[face[n]][shared[1]] = shared[2]
                            /\ differing(box.vertices3D[face[n]],
                                         box.vertices3D[face[(n % 4) + 1]]) = 1

\* C13 witness: a box with three different sides, centred off the origin
C13_Witness ==
    /\ result # <<>>
    /\ call.fn = "create3DBox"
    /\ call.args[1] = create3DPoint(DOfInt(1), DOfInt(-1), DOfInt(1))
    /\ call.args[2] = DOfInt(1)
    /\ call.args[3] = DOfInt(2)
    /\ call.args[4] # call.args[3]
    /\ result[1].vertices3D[6] = create3DPoint(DOfRatio(3, 2), DOfInt(0), DOfRatio(3, 2))

DAbs(a) == Let(a, LAMBDA x : [x EXCEPT !.neg = FALSE])

\* the points a projected point is added to, and the factors it is scaled by
Offsets == { create3DPoint(DOfInt(a), DOfInt(b), DOfInt(c)) : a, b, c \in {-1, 0, 1} }
Scalars == { DOfInt(-1), DOfInt(2), DOfInt(3), DOfInt(10), DOfRatio(1, 2) }

\* |x| + |y| + |z|
Magnitude(p) == DAdd(DAdd(DAbs(p.x), DAbs(p.y)), DAbs(p.z))

\* both coordinates of the 2D points a and b differ by at most 2^-50 * scale
Near(a, b, scale) ==
    Let(DMul(Double(FALSE, <<1>>, -50), scale), LAMBDA tolerance :
        /\ DLe(DAbs(DSub(a.x, b.x)), tolerance)
        /\ DLe(DAbs(DSub(a.y, b.y)), tolerance))

C15_ResetIdempotent ==
    [][(lastOp.name = "reset" /\ lastOp'.name = "reset") =>
          /\ UNCHANGED <<isPlaying, time, displacement, parameters>>
          /\ ~isPlaying' /\ time' = 0 /\ displacement' = noDisplacement]_vars

canvasWidth == 600
canvasHeight == 400

\* an integer literal of the source
Px(n) == IF n < 0 THEN Number(-1, -n, 0) ELSE Number(1, n, 0)

\* a + b; the order of a finite sum is that of its larger term
NSum(a0, b0) ==
    Let2(a0, b0, LAMBDA a, b :
        IF a.k = "nan" \/ b.k = "nan" THEN NaN
        ELSE IF a.k = "inf" /\ b.k = "inf" THEN (IF a.s = b.s THEN a ELSE NaN)
        ELSE IF a.k = "inf" THEN a
        ELSE IF b.k = "inf" THEN b
        ELSE IF a.k = "zero" THEN b
        ELSE IF b.k = "zero" THEN a
        ELSE IF a.o >= b.o THEN Fin(a.s, a.o) ELSE Fin(b.s, b.o))

\* Math.abs(a) > 0.1
ExceedsTenth(a) == a.k = "inf" \/ (a.k = "fin" /\ a.o >= -1)

\* the displacement indicator and its value label, drawn when
\* Math.abs(displacement) > 0.1, with the dash pattern left in place
displacementIndicator_dashed(centerX, centerY, groundDisp, structureX, shown) ==
    IF ExceedsTenth(shown.val)
    THEN << <<"strokeStyle", "#F59E0B">>,
            <<"lineWidth", 3>>,
            <<"setLineDash", <<5, 5>> >>,
            <<"beginPath">>,
            <<"moveTo", NSum(centerX, groundDisp), NSum(centerY, Px(-60))>>,
            <<"lineTo", structureX, NSum(centerY, Px(-60))>>,
            <<"stroke">>,
            <<"fillStyle", "#F59E0B">>,
            <<"font", "14px monospace">>,
            <<"fillText", shown.val, NSum(centerX, Px(20)), NSum(centerY, Px(-65))>> >>
    ELSE <<>>

\* the displacement indicator and its value label, drawn when
\* Math.abs(displacement) > 0.1
displacementIndicator(centerX, centerY, groundDisp, structureX, shown) ==
    IF ExceedsTenth(shown.val)
    THEN << <<"strokeStyle", "#F59E0B">>,
            <<"lineWidth", 3>>,
            <<"setLineDash", <<5, 5>> >>,
            <<"beginPath">>,
            <<"moveTo", NSum(centerX, groundDisp), NSum(centerY, Px(-60))>>,
            <<"lineTo", structureX, NSum(centerY, Px(-60))>>,
            <<"stroke">>,
            <<"setLineDash", <<>> >>,
            <<"fillStyle", "#F59E0B">>,
            <<"font", "14px monospace">>,
            <<"fillText", shown.val, NSum(centerX, Px(20)), NSum(centerY, Px(-65))>> >>
    ELSE <<>>

drawEffect(p, ms, shown) ==
    LET scale == Number(1, 5, -1)
        centerX == Px(canvasWidth \div 2)
        centerY == Px(canvasHeight \div 2)
        swing == NMul(NMul(TwoPi, p.frequency), secondsOf(ms))
        groundDisp == NMul(NMul(p.groundAccel,
                                IF swing.k = "zero" THEN Zero ELSE NSin(swing)),
                           scale)
        structureX == NSum(NSum(centerX, groundDisp), NMul(shown.val, scale))
    IN  <<  <<"fillStyle", "#1f2937">>,
            <<"fillRect", Zero, Zero, Px(canvasWidth), Px(canvasHeight)>>,
            <<"fillStyle", "#8B4513">>,
            <<"fillRect", Zero, NSum(NSum(centerY, Px(100)), groundDisp),
                          Px(canvasWidth), Px(50)>>,
            <<"fillStyle", "#666666">>,
            <<"fillRect", NSum(NSum(centerX, Px(-30)), groundDisp),
                          NSum(centerY, Px(80)), Px(60), Px(20)>>,
            <<"fillStyle", "#3B82F6">>,
            <<"fillRect", NSum(structureX, Px(-25)), NSum(centerY, Px(-20)),
                          Px(50), Px(100)>>,
            <<"fillStyle", "#1E40AF">>,
            <<"beginPath">>,
            <<"moveTo", NSum(structureX, Px(-35)), NSum(centerY, Px(-20))>>,
            <<"lineTo", structureX, NSum(centerY, Px(-50))>>,
            <<"lineTo", NSum(structureX, Px(35)), NSum(centerY, Px(-20))>>,
            <<"closePath">>,
            <<"fill">>,
            <<"strokeStyle", "#EF4444">>,
            <<"lineWidth", 2>>,
            <<"beginPath">>,
            <<"moveTo", NSum(centerX, groundDisp), NSum(centerY, Px(80))>>,
            <<"lineTo", structureX, NSum(centerY, Px(80))>>,
            <<"stroke">>  >>
        \o displacementIndicator(centerX, centerY, groundDisp, structureX, shown)
        \o << <<"fillStyle", "#FFFFFF">>,
              <<"font", "16px monospace">>,
              <<"fillText", secondsOf(ms), Px(10), Px(30)>> >>

\* the values of a parameter field the component accepts
AcceptedValues ==
    { parseFloat(str) : str \in { <<"2">>, <<"0", ".", "0", "1">>, <<"1", "0", "0", "0">>,
                                  <<"1", "e", "3", "0", "0">> } }

\* the parameters after one accepted edit and the derived values of it
EditedParameters ==
    { reduceParameters(initialParameters,
          << [hook |-> "parameters", op |-> "field", arg |-> <<f, v>>],
             [hook |-> "parameters", op |-> "derived",
              arg |-> LET edited == [initialParameters EXCEPT ![f] = v]
                          naturalFreq == naturalFrequency(edited.stiffness, edited.mass)
                      IN  <<naturalFreq, periodOf(naturalFreq)>>] >>) :
        f \in ParamNames, v \in AcceptedValues }

\* the committed states the effect draws: each tick of a run on the edited
\* parameters
DrawEffectCalls ==
    { [fn |-> "drawEffect",
       args |-> <<p, TimeStep * n, animateDisplacement(p, TimeStep * n)>>] :
        p \in EditedParameters, n \in 1..MaxTime }

DrawInit ==
    /\ SimInit
    /\ call \in DrawEffectCalls
    /\ result = <<>>

EvaluateDrawEffect ==
    /\ result = <<>>
    /\ call.fn = "drawEffect"
    /\ result' = <<drawEffect(call.args[1], call.args[2], call.args[3])>>
    /\ UNCHANGED <<call, simVars>>

DrawNext == EvaluateDrawEffect

SpecDraw == DrawInit /\ [][DrawNext]_vars

\* where the main structure is drawn: the x of the rectangle filled in the
\* structure's colour
StructureLeft(calls) ==
    calls[(CHOOSE i \in 1..Len(calls) : calls[i] = <<"fillStyle", "#3B82F6">>) + 1][2]

\* C17: for every displacement the simulation produces the structure is
\* drawn at a finite horizontal position within a fixed range of the canvas
\* (below ten times its width in magnitude), however large the displacement.
C17_StructureStaysInRange ==
    (result # <<>> /\ call.fn = "drawEffect") =>
        LET x == StructureLeft(result[1])
        IN  /\ IsFinite(x)
            /\ x.k = "fin" => x.o <= DigitCount(canvasWidth)

(***************************************************************************)
(* The interactive formulas: InteractiveFormula keeps the parameter values *)
(* typed into its ParameterInputs and evaluates its calculation on them at *)
(* every render.                                                           *)
(***************************************************************************)
\* FORMULAS.naturalFrequency: Math.sqrt(stiffness / mass) / (2 * Math.PI)
FORMULAS_naturalFrequency(stiffness, mass) ==
    NDiv(NSqrt(NDiv(stiffness, mass)), TwoPi)

\* FORMULAS.slendernessRatio: effectiveLength / radiusOfGyration
FORMULAS_slendernessRatio(effectiveLength, radiusOfGyration) ==
    NDiv(effectiveLength, radiusOfGyration)

\* the parameters of the two interactive formulas, as the formula library
\* of the visualizer declares them
formulaLibrary ==
    [naturalFrequency |->
        <<[name |-> "k", defaultValue |-> parseFloat(<<"5", "0", "0", "0", "0">>),
           min |-> parseFloat(<<"1", "0", "0", "0">>),
           max |-> parseFloat(<<"1", "0", "0", "0", "0", "0", "0">>)],
          [name |-> "m", defaultValue |-> parseFloat(<<"1", "0", "0", "0">>),
           min |-> parseFloat(<<"1", "0", "0">>),
           max |-> parseFloat(<<"1", "0", "0", "0", "0">>)]>>,
     slendernessRatio |->
        <<[name |-> "K", defaultValue |-> parseFloat(<<"1", ".", "0">>),
           min |-> parseFloat(<<"0", ".", "5">>),
           max |-> parseFloat(<<"2", ".", "0">>)],
          [name |-> "L", defaultValue |-> parseFloat(<<"3">>),
           min |-> parseFloat(<<"1">>),
           max |-> parseFloat(<<"1", "2">>)],
          [name |-> "r", defaultValue |-> parseFloat(<<"0", ".", "1">>),
           min |-> parseFloat(<<"0", ".", "0", "1">>),
           max |-> parseFloat(<<"0", ".", "5">>)]>>]

\* the calculation of a formula applied to the parameter values
calculation(title, params) ==
    IF title = "naturalFrequency"
    THEN FORMULAS_naturalFrequency(params["k"], params["m"])
    ELSE FORMULAS_slendernessRatio(NMul(params["K"], params["L"]), params["r"])

\* param.defaultValue || 0: a default of 0 or NaN is falsy
defaultValueOr0(param) ==
    IF param.defaultValue.k \in {"zero", "nan"} THEN Zero ELSE param.defaultValue

\* one render of InteractiveFormula: the result is computed from the
\* parameter values of the render
InteractiveFormula(title, paramValues) ==
    [paramValues |-> paramValues, result |-> calculation(title, paramValues)]

\* the state initializer of InteractiveFormula
initialParamValues(params) ==
    [name \in { params[i].name : i \in DOMAIN params } |->
        defaultValueOr0(CHOOSE param \in { params[i] : i \in DOMAIN params } :
                            param.name = name)]

\* setParamValues(prev => ({ ...prev, [name]: value }))
updateParameter(prev, name, value) == [prev EXCEPT ![name] = value]

\* ParameterInput's handleChange on the text of the field: onChange is
\* called with every entry that parses to a number; min and max are only
\* attributes of the input element
handleChange(prev, name, targetValue) ==
    LET numValue == parseFloat(targetValue)
    IN  IF ~IsNaN(numValue) THEN updateParameter(prev, name, numValue) ELSE prev

\* what is typed into a field
TypedEntries ==
    { <<"0">>, <<"-", "5">>, <<>>, <<"a", "b", "c">>, <<"2">>, <<"5", "0", "0">>,
      <<"2", "0", "0", "0">>, <<"0", ".", "2">>, <<"1", "e", "7">> }

InputInit ==
    /\ SimInit
    /\ call \in { [fn |-> "InteractiveFormula", args |-> <<title>>] :
                    title \in DOMAIN formulaLibrary }
    /\ result = <<>>

\* the component mounts: the first render
Mount ==
    /\ result = <<>>
    /\ call.fn = "InteractiveFormula"
    /\ result' = <<InteractiveFormula(call.args[1],
                        initialParamValues(formulaLibrary[call.args[1]]))>>
    /\ UNCHANGED <<call, simVars>>

\* an entry is typed into one of the fields: the change handler and the
\* render of the update it dispatches
TypeEntry ==
    /\ result # <<>>
    /\ call.fn = "InteractiveFormula"
    /\ \E name \in DOMAIN result[1].paramValues, targetValue \in TypedEntries :
          result' = <<InteractiveFormula(call.args[1],
                          handleChange(result[1].paramValues, name, targetValue))>>
    /\ UNCHANGED <<call, simVars>>

InputNext == Mount \/ TypeEntry

SpecInput == InputInit /\ [][InputNext]_vars

\* 10 to the power n
RECURSIVE TenTo(_)
TenTo(n) == IF n = 0 THEN 1 ELSE 10 * TenTo(n - 1)

\* the rational value of a number written exactly (zero, or tagged with its
\* digits and decimal exponent)
Exactly(a) ==
    IF a.k = "zero" THEN QInt(0)
    ELSE IF a.id[2] >= 0 THEN QInt(a.s * a.id[1] * TenTo(a.id[2]))
    ELSE Q(a.s * a.id[1], TenTo(-a.id[2]))

QLe(a, b) == a[1] * b[2] <= b[1] * a[2]

\* a parameter value is physically valid for its field: positive and
\* within [min, max]
ValidFor(param, value) ==
    /\ value.k = "fin" /\ value.s = 1
    /\ QLe(Exactly(param.min), Exactly(value))
    /\ QLe(Exactly(value), Exactly(param.max))

\* C18: every parameter value on which an interactive formula is evaluated
\* is valid: positive and within the [min, max] of its field (an invalid
\* entry leaves the previous value in place).
C18_OnlyValidValuesReachFormula ==
    (result # <<>> /\ call.fn = "InteractiveFormula") =>
        \A i \in DOMAIN formulaLibrary[call.args[1]] :
            LET param == formulaLibrary[call.args[1]][i]
            IN  ValidFor(param, result[1].paramValues[param.name])

(***************************************************************************)
(* Claims about the scheduling of the animation loop and about the derived *)
(* parameters of the earthquake simulation.                                *)
(***************************************************************************)
\* C19: at most one frame callback is pending at any time, and a frame
\* callback runs only when the time and displacement updates of the frame
\* before it have been rendered: no state holds the unrendered updates of
\* two ticks.
C19_OneTickAtATime ==
    /\ Len(frames) <= 1
    /\ pendingTicks <= 1

\* the stored natural frequency and period of p are the ones derived from
\* the mass and stiffness of p
DerivedCurrent(p) ==
    /\ p.naturalFreq = naturalFrequency(p.stiffness, p.mass)
    /\ p.period = periodOf(p.naturalFreq)
    /\ (IsPositive(p.mass) /\ IsPositive(p.stiffness)) => IsPositive(p.naturalFreq)

\* C20: in every state the committed natural frequency and period are the
\* values derived from the committed mass and stiffness (positive when both
\* are positive), and so are the ones a frame callback computes with.
C20_DerivedNeverStale ==
    /\ DerivedCurrent(parameters)
    /\ lastOp.name = "frame" => DerivedCurrent(lastOp.closure)

\* an entry handleParameterChange accepts
Accepted(value) == ~Rejected(value)

getContext ==
    [fillStyle |-> "#000000", strokeStyle |-> "#000000", lineWidth |-> 1,
     lineDash |-> <<>>, font |-> "10px sans-serif", path |-> <<>>,
     surface |-> <<>>]

wholeCanvas == <<Zero, Zero, Px(canvasWidth), Px(canvasHeight)>>

\* one call on the context
canvasCall(ctx, c) ==
    CASE c[1] = "fillStyle" -> [ctx EXCEPT !.fillStyle = c[2]]
      [] c[1] = "strokeStyle" -> [ctx EXCEPT !.strokeStyle = c[2]]
      [] c[1] = "lineWidth" -> [ctx EXCEPT !.lineWidth = c[2]]
      [] c[1] = "setLineDash" -> [ctx EXCEPT !.lineDash = c[2]]
      [] c[1] = "font" -> [ctx EXCEPT !.font = c[2]]
      [] c[1] = "beginPath" -> [ctx EXCEPT !.path = <<>>]
      [] c[1] \in {"moveTo", "lineTo", "closePath"} ->
            [ctx EXCEPT !.path = Append(@, c)]
      [] c[1] = "fillRect" ->
            LET painted == [op |-> "fillRect", at |-> <<c[2], c[3], c[4], c[5]>>,
                            colour |-> ctx.fillStyle, style |-> <<>>]
            IN  [ctx EXCEPT !.surface = IF painted.at = wholeCanvas
                                        THEN <<painted>>
                                        ELSE Append(@, painted)]
      [] c[1] = "fill" ->
            [ctx EXCEPT !.surface =
                Append(@, [op |-> "fill", at |-> ctx.path,
                           colour |-> ctx.fillStyle, style |-> <<>>])]
      [] c[1] = "stroke" ->
            [ctx EXCEPT !.surface =
                Append(@, [op |-> "stroke", at |-> ctx.path,
                           colour |-> ctx.strokeStyle,
                           style |-> <<ctx.lineWidth, ctx.lineDash>>])]
      [] c[1] = "fillText" ->
            [ctx EXCEPT !.surface =
                Append(@, [op |-> "fillText", at |-> <<c[2], c[3], c[4]>>,
                           colour |-> ctx.fillStyle, style |-> <<ctx.font>>])]

\* the calls of one run of the draw effect, in their order
RECURSIVE Paint(_, _)
Paint(ctx0, calls0) ==
    Let2(ctx0, calls0, LAMBDA ctx, calls :
        IF calls = <<>> THEN ctx ELSE Paint(canvasCall(ctx, Head(calls)), Tail(calls)))

\* the committed states a pass draws: the mount and reset state, each tick
\* of a run, and a tick's displacement under parameters edited after it
CanvasPasses ==
    UNION { { [fn |-> "drawEffect",
               args |-> <<p, TimeStep * n,
                          IF n = 0 THEN noDisplacement
                          ELSE animateDisplacement(q, TimeStep * n)>>] :
                q \in {p, initialParameters}, n \in 0..MaxTime } :
            p \in EditedParameters \cup {initialParameters} }

CanvasInit ==
    /\ SimInit
    /\ call = <<>>
    /\ result = <<getContext>>

\* the draw effect runs for a commit that changed time, displacement or
\* parameters
DrawPass ==
    /\ \E c \in CanvasPasses :
          /\ call' = c
          /\ result' = <<Paint(result[1], drawEffect(c.args[1], c.args[2], c.args[3]))>>
          /\ lastOp' = Op(IF result[1].surface = <<>> THEN "draw" ELSE "redraw",
                          "", <<>>, c.args[1])
    /\ UNCHANGED <<isPlaying, time, parameters, displacement, animationRef, frames,
                   updates, effects, cleanup, halted, ticks, edits>>

CanvasNext == DrawPass

SpecCanvas == CanvasInit /\ [][CanvasNext]_vars

\* the layer a painted primitive belongs to: background, ground, structure
\* (foundation, building, roof, spring), displacement indicator, labels
LayerOf(painted) ==
    IF painted.op = "fillText" THEN 4
    ELSE CASE painted.colour = "#1f2937" -> 0
           [] painted.colour = "#8B4513" -> 1
           [] painted.colour \in {"#666666", "#3B82F6", "#1E40AF", "#EF4444"} -> 2
           [] painted.colour = "#F59E0B" -> 3
           [] OTHER -> 5

\* C22: after every draw pass the picture is exactly what the pass paints on
\* a new canvas (whatever the passes before it left), it starts with the
\* rectangle that covers the whole canvas, and its primitives come in the
\* order background, ground, structure, displacement indicator, labels,
\* with the ground, the structure and the time label always present.
C22_PassCompleteAndOrdered ==
    call # <<>> =>
        LET surface == result[1].surface
            alone == Paint(getContext,
                           drawEffect(call.args[1], call.args[2], call.args[3])).surface
        IN  /\ surface = alone
            /\ surface[1].at = wholeCanvas /\ LayerOf(surface[1]) = 0
            /\ \A i \in 1..(Len(surface) - 1) :
                  LayerOf(surface[i]) <= LayerOf(surface[i + 1])
            /\ \A layer \in {1, 2, 4} :
                  \E i \in 1..Len(surface) : LayerOf(surface[i]) = layer
            /\ LayerOf(surface[Len(surface)]) = 4

\* C22 witness: a pass without displacement indicator has drawn over the
\* picture of an earlier pass
C22_Witness ==
    /\ lastOp.name = "redraw"
    /\ ~ExceedsTenth(call.args[3].val)
    /\ \A i \in 1..Len(result[1].surface) : LayerOf(result[1].surface[i]) # 3

(***************************************************************************)
(* The earthquake simulation together with its canvas: the draw effect     *)
(* paints the committed parameters, time and displacement.                 *)
(***************************************************************************)
SceneInit ==
    /\ SimInit
    /\ call = <<>>
    /\ result = <<getContext>>

\* the draw effect runs on the committed state: it reads the state and calls
\* the context, and calls no state setter
DrawCommitted ==
    /\ result' = <<Paint(result[1], drawEffect(parameters, time, displacement))>>
    /\ UNCHANGED <<call, simVars>>

\* the entries typed while the canvas is watched: a mass or a damping, accepted
\* or rejected
SceneInputs == { <<"2">>, <<"0">> }

SceneParameterChange ==
    /\ edits < MaxEdits
    /\ \E param \in {"mass", "damping"}, value \in SceneInputs :
          /\ Commit(DiscreteEvent(World, handleParameterChange(World, param, value)))
          /\ lastOp' = Op("edit", param, value, initialParameters)
    /\ edits' = edits + 1
    /\ UNCHANGED <<halted, ticks, call, result>>

SceneNext ==
    \/ Start
    \/ Stop
    \/ Reset
    \/ SceneParameterChange
    \/ AnimationFrame
    \/ RenderPending
    \/ RunEffects
    \/ DrawCommitted

SpecScene == SceneInit /\ [][SceneNext]_vars

\* C23: a draw pass changes none of elapsedTime, displacement, the running
\* flag and the parameters, and a frame, start(), stop() or reset() changes
\* none of the five parameters the user edits.
C23_StateOwnership ==
    [][/\ result' # result =>
            UNCHANGED <<time, displacement, isPlaying, parameters>>
       /\ lastOp'.name \in {"frame", "start", "stop", "reset"} =>
            \A f \in ParamNames : parameters'[f] = parameters[f]]_vars

\* C23 witness: the canvas shows a tick of a run on an edited mass, drawn
\* after the run was stopped
C23_Witness ==
    /\ result[1].surface =
          Paint(getContext, drawEffect(parameters, time, displacement)).surface
    /\ halted = "stop"
    /\ time > 0
    /\ parameters.mass = parseFloat(<<"2">>)
    /\ Len(result[1].surface) > 1

(***************************************************************************)
(* The Load Path Tracer: its animation flag, speed and time, the frame     *)
(* callbacks the browser holds for it and the updates React holds. A frame *)
(* callback carries the animation speed of the render that created it, and *)
(* whether its id is the animationId the effect's cleanup cancels.         *)
(***************************************************************************)
MaxChains == 3      \* frame callbacks that may be pending at once

LoadPathTracer ==
    [isAnimating |-> FALSE, animationSpeed |-> QInt(1), animationTime |-> QInt(0),
     frames |-> <<>>, updates |-> <<>>, cleanup |-> FALSE]

\* a % 1 for a >= 0
QMod1(a) == Q(a[1] % a[2], a[2])

\* prev => (prev + 0.02 * animationSpeed) % 1
animationTimeUpdater(prev, animationSpeed) ==
    QMod1(QAdd(prev, QMul(Q(2, 100), animationSpeed)))

RECURSIVE reduceAnimationTime(_, _)
reduceAnimationTime(prev, us) ==
    IF us = <<>> THEN prev
    ELSE reduceAnimationTime(animationTimeUpdater(prev, Head(us)), Tail(us))

\* the frame callback of the tracer: the update is queued and the next frame
\* is requested; the id of that request is not kept
tracerAnimate(t, animationSpeed) ==
    [t EXCEPT !.updates = Append(@, animationSpeed),
              !.frames = Append(@, [speed |-> animationSpeed, id |-> "dropped"])]

\* return () => cancelAnimationFrame(animationId)
tracerCleanup(t) ==
    [t EXCEPT !.frames = SelectSeq(@, LAMBDA f : f.id # "animationId")]

\* the animation effect of the tracer on the state of the last render
tracerEffect(t) ==
    IF ~t.isAnimating
    THEN [t EXCEPT !.cleanup = FALSE]
    ELSE [t EXCEPT !.frames = Append(@, [speed |-> t.animationSpeed,
                                         id |-> "animationId"]),
                   !.cleanup = TRUE]

\* the render and commit after a click or an input event that set
\* isAnimating and animationSpeed: pending time updates are applied, and the
\* animation effect runs again if one of its dependencies changed
tracerEvent(t, playing, speed) ==
    LET rendered == [t EXCEPT !.isAnimating = playing, !.animationSpeed = speed,
                              !.animationTime = reduceAnimationTime(@, t.updates),
                              !.updates = <<>>]
    IN  IF playing = t.isAnimating /\ speed = t.animationSpeed THEN rendered
        ELSE tracerEffect(IF t.cleanup THEN tracerCleanup(rendered) ELSE rendered)

\* onClick={() => setIsAnimating(!isAnimating)}
toggleAnimation(t) == tracerEvent(t, ~t.isAnimating, t.animationSpeed)

\* the Animation Speed field: ParameterInput's handleChange with
\* onChange={setAnimationSpeed}
changeAnimationSpeed(t, targetValue) ==
    LET numValue == parseFloat(targetValue)
    IN  IF ~IsNaN(numValue) THEN tracerEvent(t, t.isAnimating, Exactly(numValue))
        ELSE t

SpeedEntries == { <<"1">>, <<"2">>, <<"0", ".", "5">>, <<>> }

TracerInit ==
    /\ SimInit
    /\ call = <<>>
    /\ result = <<LoadPathTracer>>

ToggleAnimation ==
    /\ Len(result[1].frames) < MaxChains
    /\ result' = <<toggleAnimation(result[1])>>
    /\ call' = [fn |-> "toggleAnimation", args |-> <<>>]
    /\ UNCHANGED simVars

ChangeAnimationSpeed ==
    /\ Len(result[1].frames) < MaxChains
    /\ \E targetValue \in SpeedEntries :
          /\ result' = <<changeAnimationSpeed(result[1], targetValue)>>
          /\ call' = [fn |-> "changeAnimationSpeed", args |-> <<targetValue>>]
    /\ UNCHANGED simVars

\* the browser runs the oldest pending frame callback of the tracer
TracerFrame ==
    /\ result[1].frames # <<>>
    /\ Len(result[1].updates) < MaxQueue
    /\ LET f == Head(result[1].frames)
       IN  result' = <<tracerAnimate([result[1] EXCEPT !.frames = Tail(@)], f.speed)>>
    /\ call' = [fn |-> "animate", args |-> <<>>]
    /\ UNCHANGED simVars

\* React renders the time updates dispatched by frame callbacks
TracerRender ==
    /\ result[1].updates # <<>>
    /\ result' = <<[result[1] EXCEPT
                       !.animationTime = reduceAnimationTime(@, result[1].updates),
                       !.updates = <<>>]>>
    /\ call' = [fn |-> "render", args |-> <<>>]
    /\ UNCHANGED simVars

TracerNext ==
    \/ ToggleAnimation
    \/ ChangeAnimationSpeed
    \/ TracerFrame
    \/ TracerRender

SpecTracer == TracerInit /\ [][TracerNext]_vars

\* C24: while the animation stays toggled off no step changes animationTime
\* or queues an update of it, and in every state at most one frame callback
\* is pending (one chain of callbacks that reschedule themselves).
C24_OffMeansStill ==
    [][/\ (~result[1].isAnimating /\ ~result'[1].isAnimating) =>
            /\ result'[1].animationTime = result[1].animationTime
            /\ Len(result'[1].updates) <= Len(result[1].updates)
       /\ Len(result'[1].frames) <= 1]_vars

(***************************************************************************)
(* The earthquake simulation under fair scheduling: the browser eventually *)
(* runs a frame callback that stays pending, and React eventually runs the *)
(* render and the effects it has scheduled.                                *)
(***************************************************************************)
SpecFair ==
    /\ Init
    /\ [][Next]_vars
    /\ WF_vars(AnimationFrame)
    /\ WF_vars(RenderPending)
    /\ WF_vars(RunEffects)

\* C25: while the simulation is running a frame callback is pending or the
\* animation effect is about to run and request one, also right after a
\* parameter edit; and a run that is neither stopped nor reset eventually
\* shows every elapsed time up to the bound of the model.
C25_RunningMakesProgress ==
    /\ [](isPlaying => (frames # <<>> \/ effects.animation))
    /\ (isPlaying /\ halted = "no") ~> (time = MaxTime * TimeStep \/ halted # "no")

\* C25 witness: a run on an edited mass has reached the last elapsed time
\* without stop or reset
C25_Witness ==
    /\ isPlaying
    /\ halted = "no"
    /\ time = MaxTime * TimeStep
    /\ parameters.mass = parseFloat(<<"2">>)
    /\ frames # <<>>

\* the five fields of p the user edits are all > 0
AllPositive(p) == \A f \in ParamNames : IsPositive(p[f])

\* C26: in every state mass, stiffness, damping ratio, ground acceleration
\* and excitation frequency are all > 0, in the committed parameters and in
\* the parameters every pending frame callback and queued updater holds; so
\* no tick runs with a damping of 0.
C26_ParametersPositive ==
    /\ AllPositive(parameters)
    /\ \A i \in DOMAIN frames : AllPositive(frames[i].closure)
    /\ \A i \in DOMAIN updates :
          (updates[i].hook = "time" /\ updates[i].op = "animate") =>
              AllPositive(updates[i].arg)
    /\ lastOp.name = "frame" => ~(lastOp.closure.damping.k = "zero")

\* C26 witness: a tick has run on a damping edited to the smallest entry the
\* field offers, after a rejected-or-accepted entry was typed
C26_Witness ==
    /\ lastOp.name = "frame"
    /\ edits = 1
    /\ lastOp.closure.damping = parseFloat(<<"1", "e", "-", "3", "2", "3">>)
    /\ parameters.damping = lastOp.closure.damping

\* p * q and p - q of two doubles as real numbers, not rounded
ExactMul(p, q) ==
    Let2(p, q, LAMBDA x, y : Double(x.neg # y.neg, BMul(x.m, y.m), x.e + y.e))

ExactSub(p, q) ==
    Let2(p, DNeg(q), LAMBDA x, y :
        IF x.m = <<>> THEN y
        ELSE IF y.m = <<>> THEN x
        ELSE Let(IF x.e < y.e THEN x.e ELSE y.e, LAMBDA e :
             Let2(BShl(x.m, x.e - e), BShl(y.m, y.e - e), LAMBDA a, b :
                IF x.neg = y.neg THEN Double(x.neg, BAdd(a, b), e)
                ELSE IF BCmp(a, b) >= 0 THEN Double(x.neg, BSub(a, b), e)
                ELSE Double(y.neg, BSub(b, a), e))))

\* the 2D points a, b, c lie on one line: (b - a) x (c - a) = 0
OnOneLine(a, b, c) ==
    ExactSub(ExactMul(ExactSub(b[1], a[1]), ExactSub(c[2], a[2])),
             ExactMul(ExactSub(b[2], a[2]), ExactSub(c[1], a[1]))) = DZero

\* the corners of an outline are pairwise distinct and not all on one line
NonDegenerate(outline) ==
    /\ \A i, j \in DOMAIN outline : i # j => outline[i] # outline[j]
    /\ \E i, j, k \in DOMAIN outline : ~OnOneLine(outline[i], outline[j], outline[k])

\* C27: with the default ISOMETRIC_CONFIG, each of the faces right, front
\* and top of a box made by create3DBox with positive width, depth and
\* height projects to four pairwise distinct points that are not all on one
\* line.
C27_VisibleFacesNonDegenerate ==
    (result # <<>> /\ call.fn = "create3DBox" /\ call.args[5] = ISOMETRIC_CONFIG) =>
        \A f \in {"right", "front", "top"} : NonDegenerate(Outline(result[1], f))

\* C28: for min < max and targetDivisions >= 1 the division count returned
\* by calculateGridSpacing is at least 1 and at most targetDivisions + 1.
C28_DivisionsBounded ==
    (result # <<>> /\ call.fn = "calculateGridSpacing") =>
        /\ DLe(DOfInt(1), result[1].divisions)
        /\ DLe(result[1].divisions, DAdd(call.args[3], DOfInt(1)))

(***************************************************************************)
(* generateTicks one loop iteration at a time, for any spacing. `result`   *)
(* holds the frame of the call: where it stands, the loop variable and the *)
(* array of ticks.                                                         *)
(***************************************************************************)
DNaN == [nan |-> TRUE]

\* Math.ceil(min / spacing) * spacing; with spacing 0 the quotient is
\* Infinity, -Infinity or NaN, Math.ceil keeps it and its product with 0 is NaN
ticksStart(min, spacing) ==
    IF spacing = DZero THEN DNaN ELSE DMul(DCeil(DDiv(min, spacing)), spacing)

\* value <= max, false when value is NaN
ticksLoopTest(value, max) == value # DNaN /\ DLe(value, max)

\* ticks.push(Math.round(value / spacing) * spacing); value += spacing
ticksLoopBody(frame, spacing) ==
    [frame EXCEPT !.ticks = Append(@, DMul(MathRound(DDiv(frame.value, spacing)), spacing)),
                  !.value = DAdd(@, spacing)]

LoopSpan == 2           \* loop limits range over -LoopSpan..LoopSpan
MaxIterations == 12     \* iterations followed in one call

LoopSpacings == { DOfInt(-1), DZero, DOfInt(1), DOfRatio(1, 2), DOfRatio(-1, 2) }

LoopCalls ==
    { [fn |-> "generateTicks", args |-> <<DOfInt(a), DOfInt(b), spacing>>] :
        a \in (-LoopSpan)..LoopSpan, b \in (-LoopSpan)..LoopSpan, spacing \in LoopSpacings }
    \cup { [fn |-> "generateTicks",
            args |-> <<Double(FALSE, <<1>>, 53), Double(FALSE, <<1>>, 54), DOfInt(1)>>] }

LoopInit ==
    /\ SimInit
    /\ call \in LoopCalls
    /\ result = <<>>

EnterLoop ==
    /\ result = <<>>
    /\ result' = <<[pc |-> "loop", value |-> ticksStart(call.args[1], call.args[3]),
                    ticks |-> <<>>]>>
    /\ UNCHANGED <<call, simVars>>

LoopIteration ==
    /\ result # <<>>
    /\ result[1].pc = "loop"
    /\ ticksLoopTest(result[1].value, call.args[2])
    /\ Len(result[1].ticks) < MaxIterations
    /\ result' = <<ticksLoopBody(result[1], call.args[3])>>
    /\ UNCHANGED <<call, simVars>>

LoopReturn ==
    /\ result # <<>>
    /\ result[1].pc = "loop"
    /\ ~ticksLoopTest(result[1].value, call.args[2])
    /\ result' = <<[result[1] EXCEPT !.pc = "returned"]>>
    /\ UNCHANGED <<call, simVars>>

LoopNext == EnterLoop \/ LoopIteration \/ LoopReturn

\* the call runs to completion once made
SpecLoop == LoopInit /\ [][LoopNext]_vars /\ WF_vars(LoopNext)

\* C29: generateTicks terminates on every finite min, max and spacing,
\* spacing <= 0 and min > max included: the loop ends after finitely many
\* iterations and a sequence, possibly empty, is returned. The loop goes on
\* while value <= max, so it ends exactly when every iteration leaves the
\* loop variable above where it found it.
C29_TicksTerminate ==
    /\ [][(result # <<>> /\ result'[1].pc = "loop") =>
            DLt(result[1].value, result'[1].value)]_vars
    /\ <>(result # <<>> /\ result[1].pc = "returned")

(***************************************************************************)
(* The units converter's conversion history. `result` holds the state of   *)
(* the UnitsConversionsCalculator component and the reading of Date.now(); *)
(* `call` holds the last handler run and the history it was given. The     *)
(* output and timestamp of a history item are display values and are left  *)
(* out of the item.                                                        *)
(***************************************************************************)
MaxNow == 3         \* Date.now() ranges over 0..MaxNow

UnitsConversionsCalculator ==
    [conversionType |-> "length", inputValue |-> 1, inputUnit |-> "m",
     outputUnit |-> "ft", conversionHistory |-> <<>>]

\* array.slice(begin, end) for 0 <= begin <= end
slice(array, begin, end) ==
    SubSeq(array, begin + 1, IF end < Len(array) THEN end ELSE Len(array))

historyItem(c, now) ==
    [id |-> now, type |-> c.conversionType, input |-> c.inputValue,
     inputUnit |-> c.inputUnit, outputUnit |-> c.outputUnit]

\* one entry too many kept: prev.slice(0, 10)
addToHistory_keepsTen(c, now) ==
    [c EXCEPT !.conversionHistory = <<historyItem(c, now)>> \o slice(@, 0, 10)]

\* setConversionHistory(prev => [historyItem, ...prev.slice(0, 9)])
addToHistory(c, now) ==
    [c EXCEPT !.conversionHistory = <<historyItem(c, now)>> \o slice(@, 0, 9)]

\* setConversionHistory([])
clearHistory(c) == [c EXCEPT !.conversionHistory = <<>>]

ConverterInit ==
    /\ SimInit
    /\ call = <<>>
    /\ result = <<UnitsConversionsCalculator, 0>>

\* a click on "Add to History"
AddToHistory ==
    /\ result' = <<addToHistory(result[1], result[2]), result[2]>>
    /\ call' = [fn |-> "addToHistory", args |-> <<result[1].conversionHistory>>]
    /\ UNCHANGED simVars

\* a click on "Clear History", which is shown while the history has entries
ClearHistory ==
    /\ Len(result[1].conversionHistory) > 0
    /\ result' = <<clearHistory(result[1]), result[2]>>
    /\ call' = [fn |-> "clearHistory", args |-> <<result[1].conversionHistory>>]
    /\ UNCHANGED simVars

\* the clock moves on
ClockTick ==
    /\ result[2] < MaxNow
    /\ result' = <<result[1], result[2] + 1>>
    /\ call' = [fn |-> "Date.now", args |-> <<>>]
    /\ UNCHANGED simVars

ConverterNext == AddToHistory \/ ClearHistory \/ ClockTick

SpecConverter == ConverterInit /\ [][ConverterNext]_vars

\* C30: the conversion history never holds more than 10 entries and is
\* ordered newest first; addToHistory puts the new entry at index 0, keeps
\* the previous entries in their order behind it and drops those beyond the
\* 10th; clearHistory leaves the history empty.
C30_HistoryNewestFirstAtMostTen ==
    [][LET prev == result[1].conversionHistory
           history == result'[1].conversionHistory
       IN  /\ Len(history) <= 10
           /\ \A i, j \in DOMAIN history : i < j => history[i].id >= history[j].id
           /\ call'.fn = "addToHistory" =>
                 /\ history[1] = historyItem(result[1], result[2])
                 /\ Len(history) = (IF Len(prev) < 10 THEN Len(prev) + 1 ELSE 10)
                 /\ \A i \in 2..Len(history) : history[i] = prev[i - 1]
           /\ call'.fn = "clearHistory" => history = <<>>]_vars

\* C30 witness: an entry was added to a full history, whose oldest entry
\* was dropped and whose other entries moved back by one
C30_Witness ==
    /\ call # <<>>
    /\ call.fn = "addToHistory"
    /\ Len(call.args[1]) = 10
    /\ Len(result[1].conversionHistory) = 10
    /\ result[1].conversionHistory[1].id = MaxNow
    /\ result[1].conversionHistory[10].id > call.args[1][10].id
    /\ result[1].conversionHistory[10] = call.args[1][9]

====
